---- MODULE Spec2Model ----
(***************************************************************************)
(* Formbricks Store: ingestion, durable job queue, enrichment worker pool  *)
(* and webhook dispatcher.                                                 *)
(*                                                                         *)
(* Spec      the ingest pipeline: create handler, PostgresQueue, Enricher  *)
(*           worker pool with Start/Stop.  A call of DispatchAsync is      *)
(*           recorded in the log `events`.                                 *)
(* HookSpec  the webhook Dispatcher: Dispatch/DispatchAsync callers, the   *)
(*           bounded job channel, the webhook workers with sendWithRetry,  *)
(*           and Shutdown.                                                 *)
(***************************************************************************)
EXTENDS Integers, Sequences, FiniteSets, TLC

\* ---------------------------------------------------------------- bounds
\* number of POST /v1/experiences requests issued
MaxCreates == 1
\* cfg.EnrichmentWorkers: size of the Enricher pool
NumWorkers == 2
\* number of Dispatch / DispatchAsync calls made on the dispatcher
MaxCalls == 1
\* number of concurrent callers of Enqueue / EnqueueEmbedding
MaxProducers == 2
\* number of rows the enrichment_jobs table may hold under QueueSpec
MaxJobs == 3
\* number of HTTP requests sent through the rate limiter
NumRequests == 5
\* resolution of the clock: ticks per second
TicksPerSecond == 4
\* the last tick of the clock
MaxTicks == 4
\* number of records of the experience_data table under StoreSpec
MaxRecords == 2
\* number of get / update / delete requests
MaxOps == 2
\* the last tick of the clock under StoreSpec
MaxStoreTicks == 1
\* number of rows of the experience_data table under SearchSpec
MaxRows == 3
\* number of search requests
MaxSearches == 1
\* largest input.Limit of a search request
MaxLimit == 2
\* dimension of the embedding vectors
VecDim == 2
\* resolution of the float64 values: they are counted in units of 1/Scale
Scale == 10
\* longest API key and X-API-Key header, in bytes
MaxKeyLen == 2
\* the provider's sentiment_score reaches from -MaxRawScore to MaxRawScore
MaxRawScore == 3
\* the provider returns up to MaxRawTopics topics
MaxRawTopics == 7
\* EnrichText is called at most MaxEnrichCalls times
MaxEnrichCalls == 1
\* list requests made
MaxLists == 1
\* a list request skips up to MaxOffset rows
MaxOffset == 1
\* the direct callers of MarkComplete and MarkFailed see up to MaxMarkJobs jobs
MaxMarkJobs == 2
\* number of requests sent through the API key check
MaxAuth == 2
\* workerCount handed to NewDispatcherWithPool
HookWorkers == 2
\* queueSize handed to NewDispatcherWithPool
QueueSize == 2

\* ------------------------------------------------------------- constants
Nil == "nil"

\* request bodies: field_type, and value_text absent, empty or non-empty
Inputs ==
    {[field_type |-> "text", value_text |-> "slow", language |-> Nil],
     [field_type |-> "text", value_text |-> "", language |-> Nil],
     [field_type |-> "text", value_text |-> Nil, language |-> Nil],
     [field_type |-> "categorical", value_text |-> "red", language |-> Nil],
     [field_type |-> "nps", value_text |-> Nil, language |-> Nil]}

\* the sentiments of the provider's normalized answers
Sentiments == {"negative", "positive"}

\* the normalized answer of the provider with sentiment s
Enrichment(s) ==
    IF s = "negative"
    THEN [sentiment |-> "negative", sentiment_score |-> "-0.8",
          emotion |-> "frustration", topics |-> <<"checkout", "performance">>]
    ELSE [sentiment |-> "positive", sentiment_score |-> "0.9",
          emotion |-> "joy", topics |-> <<"support">>]

JobTypeEnrichment == "enrichment"
JobTypeEmbedding == "embedding"

EventExperienceCreated == "experience.created"
EventExperienceUpdated == "experience.updated"
EventExperienceDeleted == "experience.deleted"
EventExperienceEnriched == "experience.enriched"

\* webhook.maxRetries
maxRetries == 3
\* in seconds
retryBaseDelay == 1

\* the configured subscriber urls
Subscribers == <<"a", "b", "c">>

Requests == 1..MaxCreates
Calls == 1..MaxCalls
HWorkers == 1..HookWorkers
UrlIx == 1..Len(Subscribers)
Workers == 1..NumWorkers
Producers == 1..MaxProducers
LRequests == 1..NumRequests

AuthRequests == 1..MaxAuth
SearchIds == 1..MaxRows
Searches == 1..MaxSearches
ListRequests == 1..MaxLists

\* embedding.embedding IS NULL
NoEmbedding == <<>>

\* vectors: VecDim components, each -1, 0 or 1
Vectors == [1..VecDim -> {-1, 0, 1}]

StoreIds == 1..MaxRecords
Ops == 1..MaxOps

\* bodies of an update request: each column is absent (nil) or supplied
PatchBodies == [value_text : {Nil, "fast"}, language : {Nil, "de"}]

\* strings of at most n bytes; byte 0 is the padding byte of secureCompare
RECURSIVE Strings(_)
Strings(n) ==
    IF n = 0 THEN {<<>>}
    ELSE Strings(n - 1) \cup
         {Append(k, b) : k \in {x \in Strings(n - 1) : Len(x) = n - 1},
                         b \in {0, 1}}

\* API keys and X-API-Key headers; a missing header reads as the empty string
Keys == Strings(MaxKeyLen)

\* routes registered on the chi router itself
ChiRoutes == {"/health", "/docs"}
\* routes served through the Huma API
HumaRoutes == {"/openapi.json", "/openapi.yaml", "/v1/experiences",
               "/v1/experiences/search"}
Paths == ChiRoutes \cup HumaRoutes

\* client addresses
Clients == {"10.0.0.1", "10.0.0.2"}

\* cfg.RateLimitPerIP and cfg.RateLimitBurst
perIPRate == 2
perIPBurst == 2
\* cfg.RateLimitGlobal and cfg.RateLimitGlobalBurst
globalRate == 4
globalBurst == 4

\* ------------------------------------------------------------- variables
VARIABLES
    cfg,        \* Config: which of OpenAIKey and the two model identifiers are set
    records,    \* experience_data table: request id -> row or NoRecord
    jobs,       \* enrichment_jobs table, in insertion order; id = index
    hpc,        \* create handler: position of each request
    hin,        \* create handler: input body of each request
    enqCalls,   \* per request: the queue.Enqueue* calls made, and whether each succeeded
    events,     \* per record: the DispatchAsync(kind, data) calls, in order
    wpc,        \* Enricher.worker: position of each worker goroutine
    wjob,       \* Enricher.worker: the job returned by Dequeue
    wres,       \* Enricher.worker: result of the provider call
    claims,     \* per job id: the number of Dequeue calls that returned it
    stopChan,   \* Enricher.stopChan is closed
    doneChan,   \* Enricher.doneChan is closed
    stopPc,     \* position of the Enricher.Stop caller
    crashed     \* the process died of a panic

\* the ingest pipeline, apart from `crashed`
pvars == <<cfg, records, jobs, hpc, hin, enqCalls, events, wpc, wjob,
           wres, claims, stopChan, doneChan, stopPc>>

VARIABLES
    urls,       \* Dispatcher.urls
    jobQueue,   \* Dispatcher.jobQueue: the buffered channel's content
    qClosed,    \* Dispatcher.jobQueue is closed
    dctx,       \* Dispatcher.ctx is cancelled
    cpc,        \* Dispatch / DispatchAsync call: position
    ckind,      \* Dispatch / DispatchAsync call: which of the two
    ci,         \* Dispatch: index of the url the loop is at
    ctxDone,    \* per call: the context handed to Dispatch is cancelled
    hstate,     \* per call and url: what became of the webhookJob
    posts,      \* per call and url: POST requests sent to the subscriber
    hdelays,    \* per call and url: the backoff delays waited, in seconds
    hwpc,       \* Dispatcher.worker: position of each worker goroutine
    hwjob,      \* Dispatcher.worker: the job received
    hwattempt,  \* sendWithRetry: attempt
    shutPc      \* Dispatcher.Shutdown: position / result

\* the webhook dispatcher
hvars == <<urls, jobQueue, qClosed, dctx, cpc, ckind, ci, ctxDone, hstate,
           posts, hdelays, hwpc, hwjob, hwattempt, shutPc>>

VARIABLES
    lclock,         \* time.Now(), in ticks
    lpc,            \* per HTTP request: its position in RateLimiter.Middleware
    lip,            \* per HTTP request: getClientIP(r)
    lat,            \* per HTTP request: the tick at which it arrived
    globalLimiter,  \* RateLimiter.globalLimiter
    ipLimiters      \* RateLimiter.ipLimiters

\* the rate limiter and the requests passing through it
lvars == <<lclock, lpc, lip, lat, globalLimiter, ipLimiters>>

VARIABLES
    apiKey,     \* cfg.APIKey, a string of bytes
    apc,        \* per request to the API: "new", "handler" or "401"
    apath,      \* per request to the API: ctx.URL().Path
    akey        \* per request to the API: ctx.Header("X-API-Key")

\* the API key check and the requests passing through it
avars == <<apiKey, apc, apath, akey>>

VARIABLES
    opc,        \* per get / update / delete request: position in its handler
    oop,        \* per request: which of the three handlers it runs
    oid,        \* per request: the id in its path
    obody,      \* update request: the columns of its body
    oexp,       \* per request: the row its handler holds (exp)
    owrote,     \* per request: its update.Save / DeleteOneID.Exec succeeded
    ores        \* per request: the status of its response, 0 before

\* the get, update and delete handlers
svars == <<opc, oop, oid, obody, oexp, owrote, ores>>

VARIABLES
    qpc,        \* per search request: the status of its response, 0 before
    qapp,       \* per search request: the app whose handler served it
    qvec,       \* per search request: queryVector
    qlimit,     \* per search request: input.Limit
    qsince,     \* per search request: input.Since
    quntil,     \* per search request: input.Until
    qres        \* per search request: Body.Results

\* the search handlers
qvars == <<qpc, qapp, qvec, qlimit, qsince, quntil, qres>>

VARIABLES
    gpc,        \* per list request: the status of its response, 0 before
    gsince,     \* per list request: input.Since
    guntil,     \* per list request: input.Until
    gtotal,     \* per list request: Body.Total
    gdata       \* per list request: Body.Data, as row ids

\* the list-experiences handler
gvars == <<gpc, gsince, guntil, gtotal, gdata>>

VARIABLES
    ncalls,     \* the number of EnrichText calls made
    npc,        \* the last EnrichText call: "new" before, "ok" or its error
    ncontent,   \* the last call: the provider's answer as json.Unmarshal left it
    nresult     \* the last call: the Enrichment it returned

\* the enrichment service
nvars == <<ncalls, npc, ncontent, nresult>>

VARIABLES
    dbClosed,   \* main: client.Close() has been called
    startCtx    \* main: the ctx handed to enricher.Start is cancelled

\* main's OnStart and OnStop hooks, apart from the positions of Stop and
\* Shutdown
mvars == <<dbClosed, startCtx>>

\* ------------------------------------------------------------ FieldType
\* variant: categorical answers, which also live in value_text, are enriched
ShouldEnrichValueText(f) == f \in {"text", "categorical"}

ShouldEnrich(f) == f = "text"

\* the configurations: each of the three strings is set (non-empty) or not
Configs ==
    [OpenAIKey : BOOLEAN, OpenAIEnrichmentModel : BOOLEAN,
     OpenAIEmbeddingModel : BOOLEAN]

\* c.OpenAIKey != "" && c.OpenAIEnrichmentModel != ""
IsEnrichmentEnabled == cfg.OpenAIKey /\ cfg.OpenAIEnrichmentModel

\* c.OpenAIKey != "" && c.OpenAIEmbeddingModel != ""
IsEmbeddingEnabled == cfg.OpenAIKey /\ cfg.OpenAIEmbeddingModel

\* main(): the queue and the pool exist iff either derivation is configured
QueueConfigured == IsEnrichmentEnabled \/ IsEmbeddingEnabled

\* ---------------------------------------------------------- PostgresQueue
\* processed_at of a row that has none (NULL); every instant is later
NoTime == 0

NewJob(id, expID, jobType, now) ==
    [id |-> id, experience_id |-> expID, job_type |-> jobType,
     status |-> "pending", error |-> Nil, attempts |-> 0,
     created_at |-> now, processed_at |-> NoTime]

enqueueJob(js, expID, jobType, now) ==
    Append(js, NewJob(Len(js) + 1, expID, jobType, now))

\* created_at defaults to time.Now(), processed_at is set to it.  Time is a logical
\* clock read off the table: Now is later than every created_at so far.
LastCreatedAt(js) ==
    IF js = <<>> THEN 0
    ELSE CHOOSE t \in {js[i].created_at : i \in 1..Len(js)} :
            \A i \in 1..Len(js) : js[i].created_at <= t

Now(js) == LastCreatedAt(js) + 1

\* variant: the store stamps created_at when the row is inserted
InsertTimesAtInsert(js, expID) == {Now(js)}

\* the created_at an insert made for record expID may get.  The builder
\* reads time.Now() before it sends the INSERT, so the row may carry an
\* instant that precedes, or equals, the created_at of rows that concurrent
\* requests inserted in between; the inserts of one request follow each
\* other, each with a later instant than the one before.
InsertTimes(js, expID) ==
    {t \in 1..Now(js) :
        \A i \in 1..Len(js) : js[i].experience_id = expID => js[i].created_at < t}

\* Dequeue, first statement: status = pending ORDER BY created_at LIMIT 1.
\* The set of ids the query may return (created_at ties are not ordered).
DequeueQuery(js) ==
    {i \in 1..Len(js) :
        /\ js[i].status = "pending"
        /\ \A k \in 1..Len(js) :
              js[k].status = "pending" => js[i].created_at <= js[k].created_at}

\* variant: the update is keyed on the id alone
DequeueMatchesAnyStatus(js, id) == TRUE

\* Dequeue, second statement: UpdateOneID(id).Where(status = pending)
DequeueMatches(js, id) == js[id].status = "pending"

\* variant: the claim leaves the counter alone
DequeueUpdateStatusOnly(js, id, attempts) ==
    [js EXCEPT ![id].status = "processing"]

DequeueUpdate(js, id, attempts) ==
    [js EXCEPT ![id].status = "processing", ![id].attempts = attempts + 1]

\* the worker holds no job
NoJob == NewJob(0, 0, Nil, 0)

\* variant: the completion is not stamped
MarkCompleteUnstamped(js, id, now) ==
    [js EXCEPT ![id].status = "completed"]

MarkComplete(js, id, now) ==
    [js EXCEPT ![id].status = "completed", ![id].processed_at = now]

\* variant: a failed job is put back for another attempt
MarkFailedRequeue(js, id, msg, now) ==
    [js EXCEPT ![id].status = "pending", ![id].error = msg]

MarkFailed(js, id, msg, now) ==
    [js EXCEPT ![id].status = "failed", ![id].error = msg,
               ![id].processed_at = now]

\* ------------------------------------------------- create-experience handler
NewRecord(in) ==
    [field_type |-> in.field_type, value_text |-> in.value_text,
     language |-> in.language, collected_at |-> lclock,
     created_at |-> lclock, updated_at |-> lclock,
     sentiment |-> Nil, sentiment_score |-> Nil, emotion |-> Nil,
     topics |-> <<>>, embedding |-> NoEmbedding]

\* no row under this id
NoRecord == [field_type |-> Nil, value_text |-> Nil, language |-> Nil,
             collected_at |-> NoTime,
             created_at |-> NoTime, updated_at |-> NoTime, sentiment |-> Nil,
             sentiment_score |-> Nil, emotion |-> Nil, topics |-> <<>>,
             embedding |-> NoEmbedding]

\* the derived fields of a record or of an event's payload
Derived(rec) ==
    [sentiment |-> rec.sentiment, sentiment_score |-> rec.sentiment_score,
     emotion |-> rec.emotion, topics |-> rec.topics]

\* no request body read yet
NoInput == [field_type |-> Nil, value_text |-> Nil, language |-> Nil]

\* shouldProcess && enrichmentQueue != nil
ShouldProcess(in) ==
    /\ ShouldEnrich(in.field_type)
    /\ in.value_text # Nil
    /\ in.value_text # ""

\* whether a call on the ent client can succeed: after client.Close() every
\* call returns an error
StoreAnswers == IF dbClosed THEN {FALSE} ELSE BOOLEAN

\* builder.Save(ctx): the insert succeeds or the store reports an error
CreateSave(r) ==
    /\ ~crashed
    /\ hpc[r] = "start"
    /\ \E in \in Inputs, ok \in StoreAnswers :
          /\ hin' = [hin EXCEPT ![r] = in]
          /\ IF ok
             THEN /\ records' = [records EXCEPT ![r] = NewRecord(in)]
                  /\ hpc' = [hpc EXCEPT ![r] =
                        IF ShouldProcess(in) /\ QueueConfigured
                        THEN "enqueue" ELSE "dispatch"]
             ELSE /\ records' = records
                  /\ hpc' = [hpc EXCEPT ![r] = "failed"]
    /\ UNCHANGED <<gvars, mvars, nvars, qvars, svars, cfg, jobs, enqCalls, events, wpc, wjob, wres,
                   claims, stopChan, doneChan, stopPc, crashed, hvars, lvars, avars>>

\* variant: an enqueue error fails the request
AfterEnqueueAbort(ok, next) == IF ok THEN next ELSE "failed"

\* enqueueAIJobs: an error of queue.Enqueue / queue.EnqueueEmbedding is
\* logged with logger.Warn and the handler goes on
AfterEnqueue(ok, next) == next

\* one queue.Enqueue / queue.EnqueueEmbedding call of enqueueAIJobs
EnqueueCall(r, jobType, next) ==
    /\ \E ok \in StoreAnswers, now \in InsertTimes(jobs, r) :
          /\ hpc' = [hpc EXCEPT ![r] = AfterEnqueue(ok, next)]
          /\ enqCalls' = [enqCalls EXCEPT ![r] =
                Append(@, [job_type |-> jobType, ok |-> ok])]
          /\ jobs' = IF ok THEN enqueueJob(jobs, r, jobType, now) ELSE jobs
          /\ claims' = IF ok THEN Append(claims, 0) ELSE claims
    /\ UNCHANGED <<gvars, mvars, nvars, qvars, svars, cfg, records, hin, events, wpc, wjob, wres,
                   stopChan, doneChan, stopPc, crashed, hvars, lvars, avars>>

CreateEnqueue(r) ==
    /\ ~crashed
    /\ hpc[r] = "enqueue"
    /\ EnqueueCall(r, JobTypeEnrichment, "enqueueEmbedding")

CreateEnqueueEmbedding(r) ==
    /\ ~crashed
    /\ hpc[r] = "enqueueEmbedding"
    /\ EnqueueCall(r, JobTypeEmbedding, "dispatch")

\* Dispatch offers a job per url to d.jobQueue; a send on the channel that
\* Shutdown closed panics
SendPanics == qClosed /\ urls # <<>>

\* dispatcher.DispatchAsync(EventExperienceCreated, entityToOutput(exp))
CreateDispatch(r) ==
    /\ ~crashed
    /\ hpc[r] = "dispatch"
    /\ events' = [events EXCEPT ![r] =
          Append(@, [event |-> EventExperienceCreated, data |-> records[r]])]
    /\ hpc' = [hpc EXCEPT ![r] = "done"]
    /\ crashed' = SendPanics
    /\ UNCHANGED <<gvars, mvars, nvars, qvars, svars, cfg, records, jobs, hin, enqCalls, wpc, wjob, wres,
                   claims, stopChan, doneChan, stopPc, hvars, lvars, avars>>

\* --------------------------------------------------------- Enricher.worker
\* select: case <-ctx.Done(), case <-e.stopChan
WorkerStopped(w) ==
    /\ ~crashed
    /\ wpc[w] = "select"
    /\ startCtx \/ stopChan
    /\ wpc' = [wpc EXCEPT ![w] = "exited"]
    /\ UNCHANGED <<gvars, mvars, nvars, qvars, svars, cfg, records, jobs, hpc, hin, enqCalls, events,
                   wjob, wres, claims, stopChan, doneChan, stopPc, crashed, hvars, lvars, avars>>

\* select: case <-ticker.C.  Go chooses among the ready cases at random, so
\* a pending tick may win against the closed stopChan.
TickReady(w) == TRUE

\* select: case <-ticker.C, then Dequeue's query for the oldest pending job
WorkerDequeueQuery(w) ==
    /\ ~crashed
    /\ wpc[w] = "select"
    /\ TickReady(w)
    /\ \/ \* query error, or no pending job: Dequeue returns nil
          /\ wpc' = [wpc EXCEPT ![w] = "select"]
          /\ wjob' = wjob
       \/ \E id \in DequeueQuery(jobs) :
             /\ ~dbClosed
             /\ wjob' = [wjob EXCEPT ![w] = jobs[id]]
             /\ wpc' = [wpc EXCEPT ![w] = "claim"]
    /\ UNCHANGED <<gvars, mvars, nvars, qvars, svars, cfg, records, jobs, hpc, hin, enqCalls, events,
                   wres, claims, stopChan, doneChan, stopPc, crashed, hvars, lvars, avars>>

\* Dequeue: the conditional update that claims the job
WorkerDequeueClaim(w) ==
    /\ ~crashed
    /\ wpc[w] = "claim"
    /\ \/ \* store error other than not-found: Dequeue returns the error
          /\ wpc' = [wpc EXCEPT ![w] = "select"]
          /\ wjob' = [wjob EXCEPT ![w] = NoJob]
          /\ UNCHANGED <<jobs, claims>>
       \/ IF ~dbClosed /\ DequeueMatches(jobs, wjob[w].id)
          THEN /\ jobs' = DequeueUpdate(jobs, wjob[w].id, wjob[w].attempts)
               /\ claims' = [claims EXCEPT ![wjob[w].id] = @ + 1]
               /\ wjob' = [wjob EXCEPT ![w] = jobs'[wjob[w].id]]
               /\ wpc' = [wpc EXCEPT ![w] = "provider"]
          ELSE \* ent.IsNotFound: another worker claimed it; or the store
               \* is closed
               /\ wpc' = [wpc EXCEPT ![w] = "select"]
               /\ wjob' = [wjob EXCEPT ![w] = NoJob]
               /\ UNCHANGED <<jobs, claims>>
    /\ UNCHANGED <<gvars, mvars, nvars, qvars, svars, cfg, records, hpc, hin, enqCalls, events, wres,
                   stopChan, doneChan, stopPc, crashed, hvars, lvars, avars>>

\* processJob: the provider call of the job's kind, made with the worker's
\* ctx under the service's own timeout; a cancelled ctx fails the call
WorkerProvider(w) ==
    /\ ~crashed
    /\ wpc[w] = "provider"
    /\ IF wjob[w].job_type = JobTypeEnrichment
       THEN IF ~IsEnrichmentEnabled
            THEN \* e.enrichmentSvc is nil: EnrichText dereferences it
                 /\ crashed' = TRUE
                 /\ UNCHANGED <<wpc, wres>>
            ELSE /\ crashed' = crashed
                 /\ \/ \E s \in Sentiments :
                          /\ ~startCtx
                          /\ wres' = [wres EXCEPT ![w] = s]
                          /\ wpc' = [wpc EXCEPT ![w] = "update"]
                    \/ /\ wres' = [wres EXCEPT ![w] = "openai api error"]
                       /\ wpc' = [wpc EXCEPT ![w] = "markFailed"]
       ELSE /\ crashed' = crashed
            /\ IF ~IsEmbeddingEnabled
               THEN \* embedding service not configured: MarkFailed(nil)
                    /\ wres' = [wres EXCEPT ![w] = "unknown error"]
                    /\ wpc' = [wpc EXCEPT ![w] = "markFailed"]
               ELSE \/ /\ ~startCtx
                       /\ wres' = [wres EXCEPT ![w] = "vector"]
                       /\ wpc' = [wpc EXCEPT ![w] = "update"]
                    \/ /\ wres' = [wres EXCEPT ![w] = "openai embeddings api error"]
                       /\ wpc' = [wpc EXCEPT ![w] = "markFailed"]
    /\ UNCHANGED <<gvars, mvars, nvars, qvars, svars, cfg, records, jobs, hpc, hin, enqCalls, events,
                   wjob, claims, stopChan, doneChan, stopPc, hvars, lvars, avars>>

\* the vector GenerateEmbedding returned for the job's text
GeneratedVector == [i \in 1..VecDim |-> 1]

\* variant: the update leaves the record as it is
PatchNothing(rec, result) == rec

\* UpdateOneID(expID).SetSentiment(..).SetSentimentScore(..).SetEmotion(..)
\* .SetTopics(..)
PatchEnrichment(rec, result) ==
    [rec EXCEPT !.sentiment = result.sentiment,
                !.sentiment_score = result.sentiment_score,
                !.emotion = result.emotion,
                !.topics = result.topics]

\* e.db.ExperienceData.UpdateOneID(expID).Set...().Exec(ctx)
WorkerUpdate(w) ==
    /\ ~crashed
    /\ wpc[w] = "update"
    /\ LET rid == wjob[w].experience_id IN
       \/ /\ records[rid] # NoRecord
          /\ ~dbClosed
          /\ IF wjob[w].job_type = JobTypeEnrichment
             THEN /\ records' = [records EXCEPT ![rid] =
                        [PatchEnrichment(@, Enrichment(wres[w]))
                            EXCEPT !.updated_at = lclock]]
                  /\ wpc' = [wpc EXCEPT ![w] = "fetch"]
             ELSE /\ records' = [records EXCEPT
                                            ![rid].embedding = GeneratedVector,
                                            ![rid].updated_at = lclock]
                  /\ wpc' = [wpc EXCEPT ![w] = "complete"]
          /\ wres' = wres
       \/ /\ records' = records
          /\ wres' = [wres EXCEPT ![w] = "update error"]
          /\ wpc' = [wpc EXCEPT ![w] = "markFailed"]
    /\ UNCHANGED <<gvars, mvars, nvars, qvars, svars, cfg, jobs, hpc, hin, enqCalls, events, wjob,
                   claims, stopChan, doneChan, stopPc, crashed, hvars, lvars, avars>>

\* variant: the payload is built without the enrichment fields
FromEntUnenriched(rec) ==
    [field_type |-> rec.field_type, value_text |-> rec.value_text,
     language |-> rec.language, collected_at |-> rec.collected_at,
     created_at |-> rec.created_at, updated_at |-> rec.updated_at,
     sentiment |-> Nil, sentiment_score |-> Nil, emotion |-> Nil,
     topics |-> <<>>]

\* models.FromEnt: the domain model of a row; it has no embedding
FromEnt(rec) ==
    [field_type |-> rec.field_type, value_text |-> rec.value_text,
     language |-> rec.language, collected_at |-> rec.collected_at,
     created_at |-> rec.created_at, updated_at |-> rec.updated_at,
     sentiment |-> rec.sentiment, sentiment_score |-> rec.sentiment_score,
     emotion |-> rec.emotion, topics |-> rec.topics]

\* processEnrichmentJob: re-read the record and dispatch experience.enriched;
\* when the read fails the job is still completed, without an event
FetchOutcomes == BOOLEAN

WorkerFetch(w) ==
    /\ ~crashed
    /\ wpc[w] = "fetch"
    /\ LET rid == wjob[w].experience_id IN
       \E ok \in FetchOutcomes \cap StoreAnswers :
          IF ok /\ records[rid] # NoRecord
          THEN /\ events' = [events EXCEPT ![rid] =
                     Append(@, [event |-> EventExperienceEnriched,
                                data |-> FromEnt(records[rid])])]
               /\ wpc' = [wpc EXCEPT ![w] = "complete"]
               /\ crashed' = SendPanics
          ELSE \* "Still mark job as complete since enrichment was saved"
               /\ events' = events
               /\ wpc' = [wpc EXCEPT ![w] = "completeUnsent"]
               /\ crashed' = crashed
    /\ UNCHANGED <<gvars, mvars, nvars, qvars, svars, cfg, records, jobs, hpc, hin, enqCalls, wjob, wres,
                   claims, stopChan, doneChan, stopPc, hvars, lvars, avars>>

\* e.queue.MarkComplete(ctx, job.ID); an error is logged
WorkerMarkComplete(w) ==
    /\ ~crashed
    /\ wpc[w] \in {"complete", "completeUnsent"}
    /\ \E ok \in StoreAnswers :
          jobs' = IF ok THEN MarkComplete(jobs, wjob[w].id, Now(jobs)) ELSE jobs
    /\ wpc' = [wpc EXCEPT ![w] = "select"]
    /\ wjob' = [wjob EXCEPT ![w] = NoJob]
    /\ wres' = [wres EXCEPT ![w] = Nil]
    /\ UNCHANGED <<gvars, mvars, nvars, qvars, svars, cfg, records, hpc, hin, enqCalls, events, claims,
                   stopChan, doneChan, stopPc, crashed, hvars, lvars, avars>>

\* e.queue.MarkFailed(ctx, job.ID, err); an error is logged
WorkerMarkFailed(w) ==
    /\ ~crashed
    /\ wpc[w] = "markFailed"
    /\ \E ok \in StoreAnswers :
          jobs' = IF ok THEN MarkFailed(jobs, wjob[w].id, wres[w], Now(jobs))
                        ELSE jobs
    /\ wpc' = [wpc EXCEPT ![w] = "select"]
    /\ wjob' = [wjob EXCEPT ![w] = NoJob]
    /\ wres' = [wres EXCEPT ![w] = Nil]
    /\ UNCHANGED <<gvars, mvars, nvars, qvars, svars, cfg, records, hpc, hin, enqCalls, events, claims,
                   stopChan, doneChan, stopPc, crashed, hvars, lvars, avars>>

\* ------------------------------------------------- Enricher.Start / Stop
\* Start: select { case <-ctx.Done(): case <-e.stopChan: }; close(e.doneChan)
StartDone ==
    /\ ~crashed
    /\ startCtx \/ stopChan
    /\ ~doneChan
    /\ doneChan' = TRUE
    /\ UNCHANGED <<gvars, mvars, nvars, qvars, svars, cfg, records, jobs, hpc, hin, enqCalls, events,
                   wpc, wjob, wres, claims, stopChan, stopPc, crashed, hvars, lvars, avars>>

\* Stop: close(e.stopChan)
StopClose ==
    /\ ~crashed
    /\ QueueConfigured
    /\ stopPc = "idle"
    /\ stopChan' = TRUE
    /\ stopPc' = "wait"
    /\ UNCHANGED <<gvars, mvars, nvars, qvars, svars, cfg, records, jobs, hpc, hin, enqCalls, events,
                   wpc, wjob, wres, claims, doneChan, crashed, hvars, lvars, avars>>

\* Stop: <-e.doneChan
StopReturn ==
    /\ ~crashed
    /\ stopPc = "wait"
    /\ doneChan
    /\ stopPc' = "returned"
    /\ UNCHANGED <<gvars, mvars, nvars, qvars, svars, cfg, records, jobs, hpc, hin, enqCalls, events,
                   wpc, wjob, wres, claims, stopChan, doneChan, crashed, hvars, lvars, avars>>

\* --------------------------------------------------------- main: OnStop
\* OnStop: enricher.Stop() has returned (or there is no enricher)
StopFinished == stopPc = "returned" \/ ~QueueConfigured

\* OnStop: dispatcher.Shutdown(30 * time.Second) has returned
ShutdownFinished == shutPc \in {"nil", "timeout"}

\* OnStop: client.Close(), after Stop and Shutdown returned
ClientClose ==
    /\ ~crashed
    /\ StopFinished
    /\ ShutdownFinished
    /\ ~dbClosed
    /\ dbClosed' = TRUE
    /\ UNCHANGED <<gvars, pvars, crashed, hvars, lvars, avars, svars, qvars, nvars,
                   startCtx>>

\* the store is open; OnStart: ctx := context.Background()
MInit ==
    /\ dbClosed = FALSE
    /\ startCtx = FALSE

\* ------------------------------------------------------ webhook.Dispatcher
webhookJob(c, i) == [call |-> c, ix |-> i]

NoHookJob == webhookJob(0, 0)

\* job states that end a job's processing: sendWithRetry has returned
Finished == {"delivered", "exhausted", "cancelled"}

\* Dispatch: marshal the event; DispatchAsync: context.WithTimeout first
DispatchBegin(c) ==
    /\ ~crashed
    /\ cpc[c] = "idle"
    /\ \E k \in {"async", "direct"} : ckind' = [ckind EXCEPT ![c] = k]
    /\ cpc' = [cpc EXCEPT ![c] = IF Len(urls) = 0 THEN "return" ELSE "loop"]
    /\ ci' = [ci EXCEPT ![c] = 1]
    /\ UNCHANGED <<gvars, hdelays, mvars, nvars, qvars, svars, avars, lvars, pvars, crashed, urls, jobQueue, qClosed, dctx, ctxDone,
                   hstate, posts, hwpc, hwjob, hwattempt, shutPc>>

\* select { case d.jobQueue <- job: default: }: the send case is ready when
\* the buffer has room
SendReady(q) == Len(q) < QueueSize

\* variant: a plain send, d.jobQueue <- job, without the default case
SelectWithoutDefault == FALSE

\* the select around the send has a default case
SelectHasDefault == TRUE

\* Dispatch: one iteration of the loop over d.urls.  A send on the closed
\* channel panics.
DispatchSend(c) ==
    /\ ~crashed
    /\ cpc[c] = "loop"
    /\ qClosed \/ SendReady(jobQueue) \/ SelectHasDefault
    /\ IF qClosed
       THEN /\ crashed' = TRUE
            /\ cpc' = [cpc EXCEPT ![c] = "panicked"]
            /\ UNCHANGED <<jobQueue, hstate, ci>>
       ELSE /\ crashed' = crashed
            /\ IF SendReady(jobQueue)
               THEN /\ jobQueue' = Append(jobQueue, webhookJob(c, ci[c]))
                    /\ hstate' = [hstate EXCEPT ![c][ci[c]] = "queued"]
               ELSE /\ jobQueue' = jobQueue
                    /\ hstate' = [hstate EXCEPT ![c][ci[c]] = "dropped"]
            /\ ci' = [ci EXCEPT ![c] = @ + 1]
            /\ cpc' = [cpc EXCEPT ![c] =
                         IF ci[c] = Len(urls) THEN "return" ELSE "loop"]
    /\ UNCHANGED <<gvars, hdelays, mvars, nvars, qvars, svars, avars, lvars, pvars, urls, qClosed, dctx, ckind, ctxDone, posts, hwpc,
                   hwjob, hwattempt, shutPc>>

\* DispatchAsync: the deferred cancel() runs when Dispatch has returned
AsyncCancels(k) == k = "async"

DispatchReturn(c) ==
    /\ ~crashed
    /\ cpc[c] = "return"
    /\ cpc' = [cpc EXCEPT ![c] = "done"]
    /\ ctxDone' = [ctxDone EXCEPT ![c] = @ \/ AsyncCancels(ckind[c])]
    /\ UNCHANGED <<gvars, hdelays, mvars, nvars, qvars, svars, avars, lvars, pvars, crashed, urls, jobQueue, qClosed, dctx, ckind, ci,
                   hstate, posts, hwpc, hwjob, hwattempt, shutPc>>

\* the caller of Dispatch cancels the context it passed
CallerCancel(c) ==
    /\ ~crashed
    /\ cpc[c] = "done"
    /\ ckind[c] = "direct"
    /\ ~ctxDone[c]
    /\ ctxDone' = [ctxDone EXCEPT ![c] = TRUE]
    /\ UNCHANGED <<gvars, hdelays, mvars, nvars, qvars, svars, avars, lvars, pvars, crashed, urls, jobQueue, qClosed, dctx, cpc, ckind,
                   ci, hstate, posts, hwpc, hwjob, hwattempt, shutPc>>

\* worker: case job, ok := <-d.jobQueue, with a job
HookReceive(w) ==
    /\ ~crashed
    /\ hwpc[w] = "select"
    /\ jobQueue # <<>>
    /\ hwjob' = [hwjob EXCEPT ![w] = Head(jobQueue)]
    /\ jobQueue' = Tail(jobQueue)
    /\ hstate' = [hstate EXCEPT ![Head(jobQueue).call][Head(jobQueue).ix] = "running"]
    /\ hwattempt' = [hwattempt EXCEPT ![w] = 0]
    /\ hwpc' = [hwpc EXCEPT ![w] = "send"]
    /\ UNCHANGED <<gvars, hdelays, mvars, nvars, qvars, svars, avars, lvars, pvars, crashed, urls, qClosed, dctx, cpc, ckind, ci,
                   ctxDone, posts, shutPc>>

\* worker: case job, ok := <-d.jobQueue, closed and drained: !ok
HookClosed(w) ==
    /\ ~crashed
    /\ hwpc[w] = "select"
    /\ jobQueue = <<>>
    /\ qClosed
    /\ hwpc' = [hwpc EXCEPT ![w] = "exited"]
    /\ UNCHANGED <<gvars, hdelays, mvars, nvars, qvars, svars, avars, lvars, pvars, crashed, urls, jobQueue, qClosed, dctx, cpc, ckind,
                   ci, ctxDone, hstate, posts, hwjob, hwattempt, shutPc>>

\* worker: case <-d.ctx.Done()
HookCancelled(w) ==
    /\ ~crashed
    /\ hwpc[w] = "select"
    /\ dctx
    /\ hwpc' = [hwpc EXCEPT ![w] = "exited"]
    /\ UNCHANGED <<gvars, hdelays, mvars, nvars, qvars, svars, avars, lvars, pvars, crashed, urls, jobQueue, qClosed, dctx, cpc, ckind,
                   ci, ctxDone, hstate, posts, hwjob, hwattempt, shutPc>>

\* sendWithRetry returns: the worker is back at its select
EndJob(w, outcome) ==
    /\ hstate' = [hstate EXCEPT ![hwjob[w].call][hwjob[w].ix] = outcome]
    /\ hwpc' = [hwpc EXCEPT ![w] = "select"]
    /\ hwjob' = [hwjob EXCEPT ![w] = NoHookJob]
    /\ hwattempt' = [hwattempt EXCEPT ![w] = 0]

\* sendWithRetry: the context that bounds the attempts and the backoff
JobCtxDone(j) == ctxDone[j.call]

\* variant: the loop admits one more attempt
RetryLeftInclusive(attempt) == attempt + 1 <= maxRetries

\* sendWithRetry: for attempt := 0; attempt < maxRetries; attempt++ admits
\* another iteration after the one numbered `attempt`
RetryLeft(attempt) == attempt + 1 < maxRetries

\* sendWithRetry: one attempt.  client.Do returns at once, sending nothing,
\* under a cancelled context; otherwise the POST goes out and is answered
\* 2xx, or fails (non-2xx, transport error, timeout).
HookSend(w) ==
    /\ ~crashed
    /\ hwpc[w] = "send"
    /\ LET j == hwjob[w]
           after(failed) ==
              \* a failed attempt: the loop ends, or enters the backoff select
              IF ~RetryLeft(hwattempt[w])
              THEN EndJob(w, "exhausted")
              ELSE IF JobCtxDone(j)
                   THEN EndJob(w, "cancelled")
                   ELSE /\ hwattempt' = [hwattempt EXCEPT ![w] = @ + 1]
                        /\ hwpc' = [hwpc EXCEPT ![w] = "backoff"]
                        /\ UNCHANGED <<hstate, hwjob>>
       IN IF JobCtxDone(j)
          THEN /\ posts' = posts
               /\ after(TRUE)
          ELSE /\ posts' = [posts EXCEPT ![j.call][j.ix] = @ + 1]
               /\ \/ EndJob(w, "delivered")
                  \/ after(TRUE)
    /\ UNCHANGED <<gvars, mvars, nvars, qvars, svars, avars, lvars, pvars, crashed, urls, jobQueue, qClosed, dctx, cpc, ckind,
                   ci, ctxDone, shutPc, hdelays>>

\* variant: the shift is by attempt
BackoffDelayShifted(attempt) == retryBaseDelay * 2 ^ attempt

\* sendWithRetry: delay := retryBaseDelay * time.Duration(1<<uint(attempt-1)),
\* in seconds
BackoffDelay(attempt) == retryBaseDelay * 2 ^ (attempt - 1)

\* sendWithRetry: case <-time.After(delay)
HookBackoffElapsed(w) ==
    /\ ~crashed
    /\ hwpc[w] = "backoff"
    /\ hwpc' = [hwpc EXCEPT ![w] = "send"]
    /\ hdelays' = [hdelays EXCEPT ![hwjob[w].call][hwjob[w].ix] =
                      Append(@, BackoffDelay(hwattempt[w]))]
    /\ UNCHANGED <<gvars, mvars, nvars, qvars, svars, avars, lvars, pvars, crashed, urls, jobQueue, qClosed, dctx, cpc, ckind,
                   ci, ctxDone, hstate, posts, hwjob, hwattempt, shutPc>>

\* sendWithRetry: case <-ctx.Done()
HookBackoffCancelled(w) ==
    /\ ~crashed
    /\ hwpc[w] = "backoff"
    /\ JobCtxDone(hwjob[w])
    /\ EndJob(w, "cancelled")
    /\ UNCHANGED <<gvars, hdelays, mvars, nvars, qvars, svars, avars, lvars, pvars, crashed, urls, jobQueue, qClosed, dctx, cpc, ckind,
                   ci, ctxDone, posts, shutPc>>

\* Shutdown: close(d.jobQueue)
ShutdownClose ==
    /\ ~crashed
    /\ shutPc = "idle"
    /\ qClosed' = TRUE
    /\ shutPc' = "wait"
    /\ UNCHANGED <<gvars, hdelays, mvars, nvars, qvars, svars, avars, lvars, pvars, crashed, urls, jobQueue, dctx, cpc, ckind, ci,
                   ctxDone, hstate, posts, hwpc, hwjob, hwattempt>>

\* variant: the wait ends with the first worker that exits
WaitGroupFirstDone == \E w \in HWorkers : hwpc[w] = "exited"

\* d.wg.Wait() has returned: every worker ran its deferred wg.Done()
WaitGroupDone == \A w \in HWorkers : hwpc[w] = "exited"

\* Shutdown: case <-done: return nil
ShutdownDone ==
    /\ ~crashed
    /\ shutPc = "wait"
    /\ WaitGroupDone
    /\ shutPc' = "nil"
    /\ UNCHANGED <<gvars, hdelays, mvars, nvars, qvars, svars, avars, lvars, pvars, crashed, urls, jobQueue, qClosed, dctx, cpc, ckind,
                   ci, ctxDone, hstate, posts, hwpc, hwjob, hwattempt>>

\* Shutdown: case <-time.After(timeout): d.cancel(); return the error
ShutdownTimeout ==
    /\ ~crashed
    /\ shutPc = "wait"
    /\ dctx' = TRUE
    /\ shutPc' = "timeout"
    /\ UNCHANGED <<gvars, hdelays, mvars, nvars, qvars, svars, avars, lvars, pvars, crashed, urls, jobQueue, qClosed, cpc, ckind, ci,
                   ctxDone, hstate, posts, hwpc, hwjob, hwattempt>>

\* ------------------------------------------------- middleware.RateLimiter
\* rate.Limiter: a token bucket.  Tokens are counted in units of
\* 1/TicksPerSecond token, so that one tick refills `limit` units and one
\* request costs TicksPerSecond units.
NewLimiter(limit, burst) ==
    [limit |-> limit, burst |-> burst, tokens |-> burst * TicksPerSecond,
     last |-> 0]

\* no limiter under this address
NoLimiter == [limit |-> 0, burst |-> 0, tokens |-> 0, last |-> 0]

\* Limiter.advance: the tokens at instant now
advance(lim, now) ==
    LET filled == lim.tokens + (now - lim.last) * lim.limit
        full == lim.burst * TicksPerSecond
    IN IF filled > full THEN full ELSE filled

\* Limiter.Allow reports whether one token is there at instant now
Allow(lim, now) == advance(lim, now) >= TicksPerSecond

\* variant: Allow reports the token without taking it
AfterAllowKeepsToken(lim, now) == lim

\* Limiter.Allow takes the token if there is one
AfterAllow(lim, now) ==
    IF Allow(lim, now)
    THEN [lim EXCEPT !.tokens = advance(lim, now) - TicksPerSecond,
                     !.last = now]
    ELSE lim

\* getLimiter: the limiter of the address, created on first use
getLimiter(ip) ==
    IF ipLimiters[ip] = NoLimiter THEN NewLimiter(perIPRate, perIPBurst)
    ELSE ipLimiters[ip]

\* time passes
Tick ==
    /\ lclock < MaxTicks
    /\ lclock' = lclock + 1
    /\ UNCHANGED <<gvars, mvars, nvars, qvars, svars, avars, pvars, crashed, hvars, lpc, lip, lat, globalLimiter,
                   ipLimiters>>

\* variant: the middleware falls through to the handler after writing 429
CallsNextAfterReject(allowed) == TRUE

\* Middleware: next.ServeHTTP(w, r) is reached only when both limiters
\* allowed the request; each rejection returns
CallsNext(allowed) == allowed

\* Middleware, for one request: ip := getClientIP(r); globalLimiter.Allow(),
\* else 429; rl.getLimiter(ip).Allow(), else 429; next.ServeHTTP(w, r): here
\* the create handler with a text body, which saves the record and enqueues
\* its two jobs.  Requests are numbered in the order of their arrival.
Middleware(q) ==
    /\ lpc[q] = "new"
    /\ q > 1 => lpc[q - 1] # "new"
    /\ lat' = [lat EXCEPT ![q] = lclock]
    /\ globalLimiter' = AfterAllow(globalLimiter, lclock)
    /\ \E ip \in Clients :
          LET passed == Allow(globalLimiter, lclock)
              allowed == passed /\ Allow(getLimiter(ip), lclock)
              in == [field_type |-> "text", value_text |-> "slow", language |-> Nil]
              js1 == enqueueJob(jobs, q, JobTypeEnrichment, Now(jobs))
              js2 == enqueueJob(js1, q, JobTypeEmbedding, Now(js1))
          IN /\ lip' = [lip EXCEPT ![q] = ip]
             /\ ipLimiters' =
                   IF passed
                   THEN [ipLimiters EXCEPT ![ip] =
                            AfterAllow(getLimiter(ip), lclock)]
                   ELSE ipLimiters
             /\ lpc' = [lpc EXCEPT ![q] =
                          IF ~passed THEN "429 global"
                          ELSE IF ~allowed THEN "429 ip" ELSE "served"]
             /\ IF CallsNext(allowed)
                THEN /\ records' = [records EXCEPT ![q] = NewRecord(in)]
                     /\ hin' = [hin EXCEPT ![q] = in]
                     /\ jobs' = IF ShouldProcess(in) /\ QueueConfigured
                                THEN js2 ELSE jobs
                     /\ claims' = IF ShouldProcess(in) /\ QueueConfigured
                                  THEN claims \o <<0, 0>> ELSE claims
                ELSE UNCHANGED <<records, hin, jobs, claims>>
    /\ UNCHANGED <<gvars, mvars, nvars, qvars, svars, cfg, hpc, enqCalls, events, wpc, wjob, wres, stopChan,
                   doneChan, stopPc, crashed, hvars, lclock, avars>>

\* NewRateLimiter: no per-address limiter yet, the global bucket full
LInit ==
    /\ lclock = 0
    /\ lpc = [q \in LRequests |-> "new"]
    /\ lip = [q \in LRequests |-> Nil]
    /\ lat = [q \in LRequests |-> 0]
    /\ globalLimiter = NewLimiter(globalRate, globalBurst)
    /\ ipLimiters = [ip \in Clients |-> NoLimiter]

\* ------------------------------------------- get / update / delete handlers
\* the columns an update request supplies
Supplied(body) == {f \in DOMAIN body : body[f] # Nil}

\* variant: the update writes every column of the body, supplied or not
ApplyPatchAllColumns(rec, body) ==
    [f \in DOMAIN rec |-> IF f \in DOMAIN body THEN body[f] ELSE rec[f]]

\* update handler: if input.Body.X != nil { update.SetX(*input.Body.X) }
ApplyPatch(rec, body) ==
    [f \in DOMAIN rec |-> IF f \in Supplied(body) THEN body[f] ELSE rec[f]]

\* variant: the event is dispatched whatever update.Save returned
AfterUpdateSaveAlways(ok) == "dispatch"

\* update handler: if err != nil { return nil, handleDatabaseError(...) }
AfterUpdateSave(ok) == IF ok THEN "dispatch" ELSE "done"

\* the outcomes of a store call on record id: it succeeds on a row that is
\* there, reports not-found on a missing row, or fails on its own
StoreOutcomes(id) ==
    (IF records[id] # NoRecord THEN {"ok"} ELSE {"notfound"}) \cup {"error"}

\* handleDatabaseError: 404 for ent.IsNotFound, else 409 or 500
ErrorStatus(outcome) == IF outcome = "notfound" THEN 404 ELSE 500

\* update handler up to update.Save(ctx): UpdateOneID(id) with the supplied
\* columns; updated_at is set by its UpdateDefault(time.Now)
UpdateSave(c) ==
    /\ opc[c] = "idle"
    /\ \E id \in StoreIds, body \in PatchBodies :
       \E outcome \in StoreOutcomes(id) :
          LET ok == outcome = "ok"
              row == [ApplyPatch(records[id], body) EXCEPT !.updated_at = lclock]
          IN /\ oop' = [oop EXCEPT ![c] = "update"]
             /\ oid' = [oid EXCEPT ![c] = id]
             /\ obody' = [obody EXCEPT ![c] = body]
             /\ owrote' = [owrote EXCEPT ![c] = ok]
             /\ records' = IF ok THEN [records EXCEPT ![id] = row] ELSE records
             /\ oexp' = IF ok THEN [oexp EXCEPT ![c] = row] ELSE oexp
             /\ opc' = [opc EXCEPT ![c] = AfterUpdateSave(ok)]
             /\ ores' = IF AfterUpdateSave(ok) = "dispatch" THEN ores
                        ELSE [ores EXCEPT ![c] = ErrorStatus(outcome)]
    /\ UNCHANGED <<gvars, mvars, nvars, qvars, cfg, jobs, hpc, hin, enqCalls, events, wpc, wjob, wres,
                   claims, stopChan, doneChan, stopPc, crashed, hvars, lvars,
                   avars>>

\* update handler: DispatchAsync(EventExperienceUpdated, entityToOutput(exp))
\* and the 200 response
UpdateDispatch(c) ==
    /\ opc[c] = "dispatch"
    /\ oop[c] = "update"
    /\ events' = [events EXCEPT ![oid[c]] =
          Append(@, [event |-> EventExperienceUpdated,
                     data |-> FromEnt(oexp[c])])]
    /\ opc' = [opc EXCEPT ![c] = "done"]
    /\ ores' = [ores EXCEPT ![c] = 200]
    /\ UNCHANGED <<gvars, mvars, nvars, qvars, cfg, records, jobs, hpc, hin, enqCalls, wpc, wjob, wres,
                   claims, stopChan, doneChan, stopPc, crashed, hvars, lvars,
                   avars, oop, oid, obody, oexp, owrote>>

\* delete handler: client.ExperienceData.Get(ctx, id), for the webhook
DeleteGet(c) ==
    /\ opc[c] = "idle"
    /\ \E id \in StoreIds :
       \E outcome \in StoreOutcomes(id) :
          /\ oop' = [oop EXCEPT ![c] = "delete"]
          /\ oid' = [oid EXCEPT ![c] = id]
          /\ IF outcome = "ok"
             THEN /\ oexp' = [oexp EXCEPT ![c] = records[id]]
                  /\ opc' = [opc EXCEPT ![c] = "exec"]
                  /\ ores' = ores
             ELSE /\ oexp' = oexp
                  /\ opc' = [opc EXCEPT ![c] = "done"]
                  /\ ores' = [ores EXCEPT ![c] = ErrorStatus(outcome)]
    /\ UNCHANGED <<gvars, mvars, nvars, qvars, pvars, crashed, hvars, lvars, avars, obody, owrote>>

\* variant: the row is left in the table
DeleteRowKept(rec) == rec

\* DeleteOneID(id).Exec(ctx) removes the row
DeleteRow(rec) == NoRecord

\* delete handler: client.ExperienceData.DeleteOneID(id).Exec(ctx); ent
\* reports not-found when the statement affected no row.  The jobs that
\* reference the row stay in their table, and the store may refuse the
\* delete because of them.
DeleteExec(c) ==
    /\ opc[c] = "exec"
    /\ \E outcome \in StoreOutcomes(oid[c]) :
          IF outcome = "ok"
          THEN /\ records' = [records EXCEPT ![oid[c]] = DeleteRow(@)]
               /\ owrote' = [owrote EXCEPT ![c] = TRUE]
               /\ opc' = [opc EXCEPT ![c] = "dispatch"]
               /\ ores' = ores
          ELSE /\ records' = records
               /\ owrote' = owrote
               /\ opc' = [opc EXCEPT ![c] = "done"]
               /\ ores' = [ores EXCEPT ![c] = ErrorStatus(outcome)]
    /\ UNCHANGED <<gvars, mvars, nvars, qvars, cfg, jobs, hpc, hin, enqCalls, events, wpc, wjob, wres,
                   claims, stopChan, doneChan, stopPc, crashed, hvars, lvars,
                   avars, oop, oid, obody, oexp>>

\* delete handler: DispatchAsync(EventExperienceDeleted, entityToOutput(exp))
\* with the row read before the delete, and the 204 response
DeleteDispatch(c) ==
    /\ opc[c] = "dispatch"
    /\ oop[c] = "delete"
    /\ events' = [events EXCEPT ![oid[c]] =
          Append(@, [event |-> EventExperienceDeleted,
                     data |-> FromEnt(oexp[c])])]
    /\ opc' = [opc EXCEPT ![c] = "done"]
    /\ ores' = [ores EXCEPT ![c] = 204]
    /\ UNCHANGED <<gvars, mvars, nvars, qvars, cfg, records, jobs, hpc, hin, enqCalls, wpc, wjob, wres,
                   claims, stopChan, doneChan, stopPc, crashed, hvars, lvars,
                   avars, oop, oid, obody, oexp, owrote>>

\* get handler: client.ExperienceData.Get(ctx, id) and the response
GetHandler(c) ==
    /\ opc[c] = "idle"
    /\ \E id \in StoreIds :
       \E outcome \in StoreOutcomes(id) :
          /\ oop' = [oop EXCEPT ![c] = "get"]
          /\ oid' = [oid EXCEPT ![c] = id]
          /\ oexp' = IF outcome = "ok" THEN [oexp EXCEPT ![c] = records[id]]
                     ELSE oexp
          /\ opc' = [opc EXCEPT ![c] = "done"]
          /\ ores' = [ores EXCEPT ![c] =
                        IF outcome = "ok" THEN 200 ELSE ErrorStatus(outcome)]
    /\ UNCHANGED <<gvars, mvars, nvars, qvars, pvars, crashed, hvars, lvars, avars, obody, owrote>>

\* time passes while the handlers run
StoreTick ==
    /\ lclock < MaxStoreTicks
    /\ Tick

\* no get, update or delete request has been made
SInit ==
    /\ opc = [c \in Ops |-> "idle"]
    /\ oop = [c \in Ops |-> Nil]
    /\ oid = [c \in Ops |-> 0]
    /\ obody = [c \in Ops |-> [value_text |-> Nil, language |-> Nil]]
    /\ oexp = [c \in Ops |-> NoRecord]
    /\ owrote = [c \in Ops |-> FALSE]
    /\ ores = [c \in Ops |-> 0]

\* ---------------------------------------------------------- search handlers
\* a[1]*b[1] + ... + a[n]*b[n]
RECURSIVE DotTo(_, _, _)
DotTo(a, b, n) == IF n = 0 THEN 0 ELSE DotTo(a, b, n - 1) + a[n] * b[n]

\* math.Sqrt(n), in units of 1/Scale
Sqrt(n) ==
    CHOOSE r \in 0..(2 * Scale * VecDim) :
        r * r <= n * Scale * Scale /\ (r + 1) * (r + 1) > n * Scale * Scale

\* cosineDist, in units of 1/Scale
cosineDist(a, b) ==
    IF Len(a) # Len(b) THEN 2 * Scale
    ELSE IF Len(a) = 0 THEN 2 * Scale
    ELSE LET dotProduct == DotTo(a, b, Len(a))
             magnitudeA == Sqrt(DotTo(a, a, Len(a)))
             magnitudeB == Sqrt(DotTo(b, b, Len(b)))
         IN IF magnitudeA = 0 \/ magnitudeB = 0 THEN 2 * Scale
            ELSE LET cosineSim ==
                        (dotProduct * Scale * Scale * Scale)
                            \div (magnitudeA * magnitudeB)
                     clamped == IF cosineSim > Scale THEN Scale
                                ELSE IF cosineSim < -Scale THEN -Scale
                                ELSE cosineSim
                 IN Scale - clamped

\* variant: rows without an embedding pass the filter
EmbeddingAny(rec) == TRUE

\* Where(experiencedata.EmbeddingNotNil())
EmbeddingNotNil(rec) == rec.embedding # NoEmbedding

\* the instant of the well-formed timestamp a request may carry
RFC3339 == "2024-06-01T00:00:00Z" :> 2

\* the values of a since / until query parameter: absent, well-formed, and
\* not RFC3339 (a date without a time)
TimeFilters == {""} \cup DOMAIN RFC3339 \cup {"2024-01-01"}

\* time.Parse(time.RFC3339, text) returns an error
ParseFails(text) == text \notin DOMAIN RFC3339

\* a since / until parameter that is given and does not parse
Malformed(text) == text # "" /\ ParseFails(text)

\* the handler adds CollectedAtGTE(sinceTime) to the query
SinceApplies(since) == since # "" /\ ~ParseFails(since)

\* the handler adds CollectedAtLTE(untilTime) to the query
UntilApplies(until) == until # "" /\ ~ParseFails(until)

\* the Where clauses the since and until parameters add to a query
InRange(rec, since, until) ==
    /\ SinceApplies(since) => rec.collected_at >= RFC3339[since]
    /\ UntilApplies(until) => rec.collected_at <= RFC3339[until]

\* the rows the search query selects under the time filters
MatchingIn(since, until) ==
    {id \in SearchIds : /\ records[id] # NoRecord
                        /\ EmbeddingNotNil(records[id])
                        /\ InRange(records[id], since, until)}

\* the rows the query selects without time filters
Matching == MatchingIn("", "")

\* variant: the query has no LIMIT
LimitNone(limit, n) == n

\* Limit(input.Limit): the number of rows returned out of n
Limit(limit, n) == IF n < limit THEN n ELSE limit

\* the query: the matching rows ORDER BY cosine distance to the query
\* vector, LIMIT input.Limit; rows at the same distance come in any order.
\* A row without an embedding sorts last.
QueryDistance(qv, id) ==
    IF records[id].embedding = NoEmbedding THEN 2 * Scale + 1
    ELSE cosineDist(qv, records[id].embedding)

QueryResultsIn(qv, limit, M) ==
    LET n == Limit(limit, Cardinality(M))
    IN {seq \in [1..n -> M] :
          /\ \A i, j \in 1..n : i < j =>
                /\ seq[i] # seq[j]
                /\ QueryDistance(qv, seq[i]) <= QueryDistance(qv, seq[j])
          /\ \A id \in M \ {seq[i] : i \in 1..n} :
                \A i \in 1..n : QueryDistance(qv, seq[i]) <= QueryDistance(qv, id)}

QueryResults(qv, limit) == QueryResultsIn(qv, limit, Matching)

\* hub handler: similarity := 1.0 - distance, clamped to [0, 1], with the
\* distance recalculated by cosineDist
SimilarityHub(qv, rec) ==
    LET distance == IF rec.embedding # NoEmbedding THEN cosineDist(qv, rec.embedding)
                    ELSE Scale
        similarity == Scale - distance
        atLeast0 == IF similarity < 0 THEN 0 ELSE similarity
    IN IF atLeast0 > Scale THEN Scale ELSE atLeast0

\* store handler: similarityScore := 1.0 - float64(i)/float64(len)*0.5,
\* for the result at index i (from 0) of len results
SimilarityStore(i, len) == Scale - (i * Scale) \div (2 * len)

\* the hub handler answers 400 to a since / until that does not parse; the
\* store handler leaves the filter out
RejectsMalformed(app) == app = "hub"

\* the outcomes of a search: 400 when embeddings are not enabled, 503 when
\* GenerateEmbedding fails, 400 when the hub handler meets a malformed time
\* filter, 500 when the query fails, else 200
SearchStatuses == IF ~IsEmbeddingEnabled THEN {400} ELSE {503, 500, 200}

SearchStatusesFor(app, since, until) ==
    IF IsEmbeddingEnabled /\ RejectsMalformed(app)
          /\ (Malformed(since) \/ Malformed(until))
    THEN {503, 400}
    ELSE SearchStatuses

\* one search request with its time filters drawn from `filters` and the
\* vector of its query text from `vectors`; app is "hub" or "store"
SearchRequest(k, app, filters, vectors) ==
    /\ qpc[k] = 0
    /\ qapp' = [qapp EXCEPT ![k] = app]
    /\ \E since \in filters, until \in filters :
       \E status \in SearchStatusesFor(app, since, until) :
       \E qv \in vectors, limit \in 1..MaxLimit :
          /\ qpc' = [qpc EXCEPT ![k] = status]
          /\ qlimit' = [qlimit EXCEPT ![k] = limit]
          /\ qsince' = [qsince EXCEPT ![k] = since]
          /\ quntil' = [quntil EXCEPT ![k] = until]
          /\ qvec' = [qvec EXCEPT ![k] = IF status \in {500, 200} THEN qv ELSE @]
          /\ IF status = 200
             THEN \E seq \in QueryResultsIn(qv, limit, MatchingIn(since, until)) :
                    qres' = [qres EXCEPT ![k] =
                       [i \in 1..Len(seq) |->
                          [id |-> seq[i],
                           data |-> FromEnt(records[seq[i]]),
                           similarity_score |->
                              IF app = "hub"
                              THEN SimilarityHub(qv, records[seq[i]])
                              ELSE SimilarityStore(i - 1, Len(seq))]]]
             ELSE qres' = qres
    /\ UNCHANGED <<mvars, pvars, crashed, hvars, lvars, avars, svars, nvars,
                   gvars>>

\* one search request without time filters, for any query text
Search(k, app) == SearchRequest(k, app, {""}, Vectors)

\* the search handler of apps/hub
SearchHub(k) == Search(k, "hub")

\* the search handler of apps/store
SearchStore(k) == Search(k, "store")

\* no search request has been made
QInit ==
    /\ qpc = [k \in Searches |-> 0]
    /\ qapp = [k \in Searches |-> Nil]
    /\ qvec = [k \in Searches |-> NoEmbedding]
    /\ qlimit = [k \in Searches |-> 0]
    /\ qsince = [k \in Searches |-> ""]
    /\ quntil = [k \in Searches |-> ""]
    /\ qres = [k \in Searches |-> <<>>]

\* ------------------------------------------------ list-experiences handler
\* the rows the list query selects under the time filters
Listed(since, until) ==
    {id \in DOMAIN records :
        records[id] # NoRecord /\ InRange(records[id], since, until)}

\* Order(ent.Desc(collected_at)): the selected rows, latest first; rows
\* collected at the same instant come in any order
Ordered(M) ==
    {seq \in [1..Cardinality(M) -> M] :
        \A i, j \in 1..Cardinality(M) : i < j =>
           /\ seq[i] # seq[j]
           /\ records[seq[i]].collected_at >= records[seq[j]].collected_at}

\* Limit(limit).Offset(offset)
Page(seq, limit, offset) ==
    SubSeq(seq, offset + 1,
           IF offset + limit < Len(seq) THEN offset + limit ELSE Len(seq))

\* the outcomes of a list request: 500 when Count or All fails, else 200
ListStatuses == {500, 200}

\* GET /v1/experiences: a since / until that does not parse adds no filter
ListHandler(k) ==
    /\ gpc[k] = 0
    /\ \E since \in TimeFilters, until \in TimeFilters :
       \E status \in ListStatuses :
       \E limit \in 1..MaxLimit, offset \in 0..MaxOffset :
          /\ gpc' = [gpc EXCEPT ![k] = status]
          /\ gsince' = [gsince EXCEPT ![k] = since]
          /\ guntil' = [guntil EXCEPT ![k] = until]
          /\ IF status = 200
             THEN /\ gtotal' = [gtotal EXCEPT ![k] =
                                   Cardinality(Listed(since, until))]
                  /\ \E seq \in Ordered(Listed(since, until)) :
                        gdata' = [gdata EXCEPT ![k] = Page(seq, limit, offset)]
             ELSE UNCHANGED <<gtotal, gdata>>
    /\ UNCHANGED <<mvars, pvars, crashed, hvars, lvars, avars, svars, nvars,
                   qvars>>

\* no list request has been made
GInit ==
    /\ gpc = [k \in ListRequests |-> 0]
    /\ gsince = [k \in ListRequests |-> ""]
    /\ guntil = [k \in ListRequests |-> ""]
    /\ gtotal = [k \in ListRequests |-> 0]
    /\ gdata = [k \in ListRequests |-> <<>>]

\* ------------------------------------------------- enrichment.Service
maxTopics == 5

\* topic keywords a provider may return
TopicNames ==
    <<"pricing", "ui", "performance", "support", "checkout", "docs",
      "billing", "speed", "login">>

\* var enrichment Enrichment
NoAnswer ==
    [sentiment |-> "", sentiment_score |-> 0, emotion |-> "", topics |-> <<>>]

\* sentiment_score values the provider may return, in units of 1/Scale
RawScores ==
    {k * (Scale \div 2) : k \in (0 - 2 * MaxRawScore)..(2 * MaxRawScore)}

\* what json.Unmarshal can leave in an Enrichment: any strings, any finite
\* number, any list of topics (absent keys leave the zero value)
RawAnswers ==
    [sentiment : {"positive", "negative", "neutral", "mixed", "Positive", ""},
     sentiment_score : RawScores,
     emotion : {"joy", "anger", "frustration", "sadness", "neutral",
                "confusion", "happy", ""},
     topics : {SubSeq(TopicNames, 1, n) : n \in 0..MaxRawTopics}]

validSentiments == {"positive", "negative", "neutral"}

validEmotions == {"joy", "anger", "frustration", "sadness", "neutral"}

\* variant: the score is returned as the provider gave it
normalizeEnrichmentUnclamped(e) ==
    [sentiment |-> IF e.sentiment \in validSentiments
                   THEN e.sentiment ELSE "neutral",
     sentiment_score |-> e.sentiment_score,
     emotion |-> IF e.emotion \in validEmotions THEN e.emotion ELSE "neutral",
     topics |-> IF Len(e.topics) > maxTopics
                THEN SubSeq(e.topics, 1, maxTopics) ELSE e.topics]

\* variant: every topic is kept
normalizeEnrichmentAllTopics(e) ==
    [sentiment |-> IF e.sentiment \in validSentiments
                   THEN e.sentiment ELSE "neutral",
     sentiment_score |-> IF e.sentiment_score < 0 - Scale THEN 0 - Scale
                         ELSE IF e.sentiment_score > Scale THEN Scale
                         ELSE e.sentiment_score,
     emotion |-> IF e.emotion \in validEmotions THEN e.emotion ELSE "neutral",
     topics |-> e.topics]

\* normalizeEnrichment: unknown sentiment and emotion become "neutral", the
\* score is clamped to [-1.0, 1.0], the topics are cut to the first maxTopics
normalizeEnrichment(e) ==
    [sentiment |-> IF e.sentiment \in validSentiments
                   THEN e.sentiment ELSE "neutral",
     sentiment_score |-> IF e.sentiment_score < 0 - Scale THEN 0 - Scale
                         ELSE IF e.sentiment_score > Scale THEN Scale
                         ELSE e.sentiment_score,
     emotion |-> IF e.emotion \in validEmotions THEN e.emotion ELSE "neutral",
     topics |-> IF Len(e.topics) > maxTopics
                THEN SubSeq(e.topics, 1, maxTopics) ELSE e.topics]

\* how an EnrichText call ends
EnrichOutcomes == {"ok", "api_error", "no_choices", "parse_error"}

\* EnrichText: the provider is called; an API error, an empty answer or
\* unparseable content returns (nil, err), a parsed answer is normalized
EnrichText ==
    \E outcome \in EnrichOutcomes :
        \E e \in RawAnswers :
            /\ ncalls < MaxEnrichCalls
            /\ ncalls' = ncalls + 1
            /\ npc' = outcome
            /\ ncontent' = IF outcome = "ok" THEN e ELSE NoAnswer
            /\ nresult' = IF outcome = "ok"
                          THEN normalizeEnrichment(e) ELSE NoAnswer
            /\ UNCHANGED <<gvars, pvars, crashed, hvars, lvars, avars, svars, qvars,
                           mvars>>

\* no EnrichText call has been made
NInit ==
    /\ ncalls = 0
    /\ npc = "new"
    /\ ncontent = NoAnswer
    /\ nresult = NoAnswer

\* --------------------------------------------------- middleware.APIKeyAuth
\* copy(aPadded, aBytes) into make([]byte, n)
Pad(k, n) == [i \in 1..n |-> IF i <= Len(k) THEN k[i] ELSE 0]

\* variant: the padded bytes are compared, the lengths are not
secureComparePadded(a, b) ==
    LET maxLen == IF Len(b) > Len(a) THEN Len(b) ELSE Len(a)
    IN Pad(a, maxLen) = Pad(b, maxLen)

\* secureCompare: subtle.ConstantTimeCompare of the two strings padded to
\* the longer length, and subtle.ConstantTimeEq of the two lengths
secureCompare(a, b) ==
    LET maxLen == IF Len(b) > Len(a) THEN Len(b) ELSE Len(a)
        match == Pad(a, maxLen) = Pad(b, maxLen)
        lengthMatch == Len(a) = Len(b)
    IN match /\ lengthMatch

\* the paths APIKeyAuth lets through without looking at the header
PublicPaths == {"/health", "/docs", "/openapi.json", "/openapi.yaml"}

\* APIKeyAuth: next(ctx) or huma.WriteErr(401)
APIKeyAuth(path, providedKey) ==
    IF path \in PublicPaths THEN "handler"
    ELSE IF ~secureCompare(providedKey, apiKey) THEN "401"
    ELSE "handler"

\* NewServer: if cfg.APIKey != "" { api.UseMiddleware(APIKeyAuth(...)) }
AuthInstalled == apiKey # <<>>

\* one request: a chi route runs its handler; a Huma route runs the
\* middleware, when it is installed, and then its handler
AuthRequest(q) ==
    /\ apc[q] = "new"
    /\ \E path \in Paths, providedKey \in Keys :
          /\ apath' = [apath EXCEPT ![q] = path]
          /\ akey' = [akey EXCEPT ![q] = providedKey]
          /\ apc' = [apc EXCEPT ![q] =
                       IF path \in ChiRoutes \/ ~AuthInstalled THEN "handler"
                       ELSE APIKeyAuth(path, providedKey)]
    /\ UNCHANGED <<gvars, mvars, nvars, qvars, svars, pvars, crashed, hvars, lvars, apiKey>>

\* no request has been made
AInit ==
    /\ apiKey = <<>>
    /\ apc = [q \in AuthRequests |-> "new"]
    /\ apath = [q \in AuthRequests |-> Nil]
    /\ akey = [q \in AuthRequests |-> <<>>]

\* ----------------------------------------------------------------- Spec
\* the pipeline after construction
PInit ==
    /\ cfg \in Configs
    /\ records = [r \in Requests |-> NoRecord]
    /\ jobs = <<>>
    /\ hpc = [r \in Requests |-> "start"]
    /\ hin = [r \in Requests |-> NoInput]
    /\ enqCalls = [r \in Requests |-> <<>>]
    /\ events = [r \in Requests |-> <<>>]
    /\ wpc = [w \in Workers |-> IF QueueConfigured THEN "select" ELSE "exited"]
    /\ wjob = [w \in Workers |-> NoJob]
    /\ wres = [w \in Workers |-> Nil]
    /\ claims = <<>>
    /\ stopChan = FALSE
    /\ doneChan = FALSE
    /\ stopPc = "idle"

\* NewDispatcherWithPool: the workers are started, the queue is empty
HInit ==
    /\ urls \in {<<>>, Subscribers}
    /\ jobQueue = <<>>
    /\ qClosed = FALSE
    /\ dctx = FALSE
    /\ cpc = [c \in Calls |-> "idle"]
    /\ ckind = [c \in Calls |-> Nil]
    /\ ci = [c \in Calls |-> 1]
    /\ ctxDone = [c \in Calls |-> FALSE]
    /\ hstate = [c \in Calls |-> [i \in UrlIx |-> "none"]]
    /\ posts = [c \in Calls |-> [i \in UrlIx |-> 0]]
    /\ hdelays = [c \in Calls |-> [i \in UrlIx |-> <<>>]]
    /\ hwpc = [w \in HWorkers |-> "select"]
    /\ hwjob = [w \in HWorkers |-> NoHookJob]
    /\ hwattempt = [w \in HWorkers |-> 0]
    /\ shutPc = "idle"

PNext ==
    \/ \E r \in Requests : CreateSave(r)
    \/ \E r \in Requests : CreateEnqueue(r)
    \/ \E r \in Requests : CreateEnqueueEmbedding(r)
    \/ \E r \in Requests : CreateDispatch(r)
    \/ \E w \in Workers : WorkerStopped(w)
    \/ \E w \in Workers : WorkerDequeueQuery(w)
    \/ \E w \in Workers : WorkerDequeueClaim(w)
    \/ \E w \in Workers : WorkerProvider(w)
    \/ \E w \in Workers : WorkerUpdate(w)
    \/ \E w \in Workers : WorkerFetch(w)
    \/ \E w \in Workers : WorkerMarkComplete(w)
    \/ \E w \in Workers : WorkerMarkFailed(w)
    \/ StartDone
    \/ StopClose
    \/ StopReturn

HNext ==
    \/ \E c \in Calls : DispatchBegin(c)
    \/ \E c \in Calls : DispatchSend(c)
    \/ \E c \in Calls : DispatchReturn(c)
    \/ \E c \in Calls : CallerCancel(c)
    \/ \E w \in HWorkers : HookReceive(w)
    \/ \E w \in HWorkers : HookClosed(w)
    \/ \E w \in HWorkers : HookCancelled(w)
    \/ \E w \in HWorkers : HookSend(w)
    \/ \E w \in HWorkers : HookBackoffElapsed(w)
    \/ \E w \in HWorkers : HookBackoffCancelled(w)
    \/ ShutdownClose
    \/ ShutdownDone
    \/ ShutdownTimeout

vars == <<pvars, crashed, hvars, lvars, avars, svars, qvars, nvars, mvars,
          gvars>>

\* the ingest pipeline; the dispatcher only records what it is handed
Init ==
    /\ PInit
    /\ crashed = FALSE
    /\ HInit
    /\ urls = <<>>
    /\ LInit
    /\ AInit
    /\ SInit
    /\ QInit
    /\ GInit
    /\ NInit
    /\ MInit

Next == PNext

Spec == Init /\ [][Next]_vars

\* the webhook dispatcher on its own
HookInit ==
    /\ PInit
    /\ cfg = [OpenAIKey |-> FALSE, OpenAIEnrichmentModel |-> TRUE,
              OpenAIEmbeddingModel |-> FALSE]
    /\ crashed = FALSE
    /\ HInit
    /\ LInit
    /\ AInit
    /\ SInit
    /\ QInit
    /\ GInit
    /\ NInit
    /\ MInit

HookSpec == HookInit /\ [][HNext]_vars

\* the job queue on its own: concurrent ingest goroutines call Enqueue and
\* EnqueueEmbedding, the workers call Dequeue and then MarkComplete or
\* MarkFailed
\* q.Enqueue / q.EnqueueEmbedding called for record p
QueueEnqueue(p, jobType) ==
    /\ ~crashed
    /\ Len(jobs) < MaxJobs
    /\ \E now \in InsertTimes(jobs, p) :
          jobs' = enqueueJob(jobs, p, jobType, now)
    /\ claims' = Append(claims, 0)
    /\ UNCHANGED <<gvars, mvars, nvars, qvars, svars, cfg, records, hpc, hin, enqCalls, events, wpc, wjob, wres,
                   stopChan, doneChan, stopPc, crashed, hvars, lvars, avars>>

\* processJob up to its call of MarkComplete or MarkFailed
ProcessOutcome(w) ==
    /\ ~crashed
    /\ wpc[w] = "provider"
    /\ \/ /\ wpc' = [wpc EXCEPT ![w] = "complete"]
          /\ wres' = wres
       \/ /\ wpc' = [wpc EXCEPT ![w] = "markFailed"]
          /\ wres' = [wres EXCEPT ![w] = "openai api error"]
    /\ UNCHANGED <<gvars, mvars, nvars, qvars, svars, cfg, records, jobs, hpc, hin, enqCalls, events, wjob,
                   claims, stopChan, doneChan, stopPc, crashed, hvars, lvars, avars>>

QueueInit ==
    /\ PInit
    /\ cfg = [OpenAIKey |-> TRUE, OpenAIEnrichmentModel |-> TRUE,
              OpenAIEmbeddingModel |-> TRUE]
    /\ crashed = FALSE
    /\ HInit
    /\ urls = <<>>
    /\ LInit
    /\ AInit
    /\ SInit
    /\ QInit
    /\ GInit
    /\ NInit
    /\ MInit

QueueNext ==
    \/ \E p \in Producers :
          \E t \in {JobTypeEnrichment, JobTypeEmbedding} : QueueEnqueue(p, t)
    \/ \E w \in Workers : WorkerDequeueQuery(w)
    \/ \E w \in Workers : WorkerDequeueClaim(w)
    \/ \E w \in Workers : ProcessOutcome(w)
    \/ \E w \in Workers : WorkerMarkComplete(w)
    \/ \E w \in Workers : WorkerMarkFailed(w)

QueueSpec == QueueInit /\ [][QueueNext]_vars

\* the job queue with running workers: every worker's ticker keeps firing,
\* a Dequeue that can return a job eventually does, and every call a worker
\* makes returns, with a result or an error
WorkerRuns(w) ==
    /\ SF_vars(WorkerDequeueQuery(w) /\ wpc'[w] = "claim")
    /\ SF_vars(WorkerDequeueClaim(w) /\ wpc'[w] = "provider")
    /\ WF_vars(WorkerDequeueClaim(w))
    /\ WF_vars(ProcessOutcome(w))
    /\ WF_vars(WorkerMarkComplete(w))
    /\ WF_vars(WorkerMarkFailed(w))

LiveSpec == QueueInit /\ [][QueueNext]_vars /\ \A w \in Workers : WorkerRuns(w)

\* the queue as its interface offers it: besides the workers' Dequeue, any
\* caller may call MarkComplete and MarkFailed with the id of any job
\* q.MarkComplete(ctx, jobID)
CallMarkComplete(i) ==
    /\ ~crashed
    /\ i \in 1..Len(jobs)
    /\ \E ok \in StoreAnswers :
          jobs' = IF ok THEN MarkComplete(jobs, i, Now(jobs)) ELSE jobs
    /\ UNCHANGED <<gvars, mvars, nvars, qvars, svars, cfg, records, hpc, hin, enqCalls,
                   events, wpc, wjob, wres, claims, stopChan, doneChan,
                   stopPc, crashed, hvars, lvars, avars>>

\* q.MarkFailed(ctx, jobID, jobErr)
CallMarkFailed(i) ==
    /\ ~crashed
    /\ i \in 1..Len(jobs)
    /\ \E ok \in StoreAnswers :
          jobs' = IF ok
                  THEN MarkFailed(jobs, i, "openai api error", Now(jobs))
                  ELSE jobs
    /\ UNCHANGED <<gvars, mvars, nvars, qvars, svars, cfg, records, hpc, hin, enqCalls,
                   events, wpc, wjob, wres, claims, stopChan, doneChan,
                   stopPc, crashed, hvars, lvars, avars>>

MarkNext ==
    \/ \E p \in Producers :
          Len(jobs) < MaxMarkJobs /\ QueueEnqueue(p, JobTypeEnrichment)
    \/ \E w \in Workers : WorkerDequeueQuery(w)
    \/ \E w \in Workers : WorkerDequeueClaim(w)
    \/ \E i \in 1..MaxMarkJobs : CallMarkComplete(i)
    \/ \E i \in 1..MaxMarkJobs : CallMarkFailed(i)

MarkSpec == QueueInit /\ [][MarkNext]_vars

\* the rate limiter in front of the handlers
LimitInit ==
    /\ cfg = [OpenAIKey |-> TRUE, OpenAIEnrichmentModel |-> TRUE,
              OpenAIEmbeddingModel |-> TRUE]
    /\ records = [q \in LRequests |-> NoRecord]
    /\ jobs = <<>>
    /\ hpc = [q \in LRequests |-> "start"]
    /\ hin = [q \in LRequests |-> NoInput]
    /\ enqCalls = [q \in LRequests |-> <<>>]
    /\ events = [q \in LRequests |-> <<>>]
    /\ wpc = [w \in Workers |-> "exited"]
    /\ wjob = [w \in Workers |-> NoJob]
    /\ wres = [w \in Workers |-> Nil]
    /\ claims = <<>>
    /\ stopChan = FALSE
    /\ doneChan = FALSE
    /\ stopPc = "idle"
    /\ crashed = FALSE
    /\ HInit
    /\ urls = <<>>
    /\ LInit
    /\ AInit
    /\ SInit
    /\ QInit
    /\ GInit
    /\ NInit
    /\ MInit

LimitNext ==
    \/ Tick
    \/ \E q \in LRequests : Middleware(q)

LimitSpec == LimitInit /\ [][LimitNext]_vars

\* the handlers of the experience routes on a table that holds one text
\* record, created and enriched earlier (its enrichment job completed, its
\* embedding job still pending); a second record is created meanwhile
EnrichedRecord ==
    [PatchEnrichment(NewRecord([field_type |-> "text", value_text |-> "slow",
                                language |-> Nil]),
                     Enrichment("negative"))
        EXCEPT !.collected_at = 0, !.created_at = 0, !.updated_at = 0]

StoreInit ==
    /\ LInit
    /\ cfg = [OpenAIKey |-> TRUE, OpenAIEnrichmentModel |-> TRUE,
              OpenAIEmbeddingModel |-> TRUE]
    /\ records = [r \in StoreIds |-> IF r = 1 THEN EnrichedRecord ELSE NoRecord]
    /\ jobs = <<[NewJob(1, 1, JobTypeEnrichment, 1)
                   EXCEPT !.status = "completed", !.attempts = 1,
                          !.processed_at = 3],
                NewJob(2, 1, JobTypeEmbedding, 2)>>
    /\ claims = <<1, 0>>
    /\ hpc = [r \in StoreIds |-> IF r = 1 THEN "done" ELSE "start"]
    /\ hin = [r \in StoreIds |->
                IF r = 1 THEN [field_type |-> "text", value_text |-> "slow",
                               language |-> Nil]
                ELSE NoInput]
    /\ enqCalls = [r \in StoreIds |->
                IF r = 1 THEN <<[job_type |-> JobTypeEnrichment, ok |-> TRUE],
                                [job_type |-> JobTypeEmbedding, ok |-> TRUE]>>
                ELSE <<>>]
    /\ events = [r \in StoreIds |->
                IF r = 1
                THEN <<[event |-> EventExperienceCreated,
                        data |-> NewRecord(hin[r])],
                       [event |-> EventExperienceEnriched,
                        data |-> FromEnt(EnrichedRecord)]>>
                ELSE <<>>]
    /\ wpc = [w \in Workers |-> "exited"]
    /\ wjob = [w \in Workers |-> NoJob]
    /\ wres = [w \in Workers |-> Nil]
    /\ stopChan = TRUE
    /\ doneChan = TRUE
    /\ stopPc = "returned"
    /\ crashed = FALSE
    /\ HInit
    /\ urls = <<>>
    /\ AInit
    /\ SInit
    /\ QInit
    /\ GInit
    /\ NInit
    /\ MInit

StoreNext ==
    \/ StoreTick
    \/ \E r \in StoreIds : CreateSave(r)
    \/ \E r \in StoreIds : CreateEnqueue(r)
    \/ \E r \in StoreIds : CreateEnqueueEmbedding(r)
    \/ \E r \in StoreIds : CreateDispatch(r)
    \/ \E c \in Ops : UpdateSave(c)
    \/ \E c \in Ops : UpdateDispatch(c)
    \/ \E c \in Ops : DeleteGet(c)
    \/ \E c \in Ops : DeleteExec(c)
    \/ \E c \in Ops : DeleteDispatch(c)
    \/ \E c \in Ops : GetHandler(c)

StoreSpec == StoreInit /\ [][StoreNext]_vars

\* the search handlers on a table of text records, each with or without an
\* embedding; embeddings are enabled or not
SearchInit ==
    /\ LInit
    /\ cfg \in {c \in Configs : c.OpenAIKey /\ c.OpenAIEnrichmentModel}
    /\ records \in [SearchIds ->
          {NoRecord} \cup {[EnrichedRecord EXCEPT !.embedding = e] :
                             e \in Vectors \cup {NoEmbedding}}]
    /\ jobs = <<>>
    /\ claims = <<>>
    /\ hpc = [r \in SearchIds |-> "done"]
    /\ hin = [r \in SearchIds |-> NoInput]
    /\ enqCalls = [r \in SearchIds |-> <<>>]
    /\ events = [r \in SearchIds |-> <<>>]
    /\ wpc = [w \in Workers |-> "exited"]
    /\ wjob = [w \in Workers |-> NoJob]
    /\ wres = [w \in Workers |-> Nil]
    /\ stopChan = TRUE
    /\ doneChan = TRUE
    /\ stopPc = "returned"
    /\ crashed = FALSE
    /\ HInit
    /\ urls = <<>>
    /\ AInit
    /\ SInit
    /\ QInit
    /\ GInit
    /\ NInit
    /\ MInit

SearchNext ==
    \/ \E k \in Searches : SearchHub(k)
    \/ \E k \in Searches : SearchStore(k)

SearchSpec == SearchInit /\ [][SearchNext]_vars

\* the enrichment service alone, for every answer the provider may give
NormInit ==
    /\ Init
    /\ cfg.OpenAIKey
    /\ cfg.OpenAIEnrichmentModel

NormNext == EnrichText

NormSpec == NormInit /\ [][NormNext]_vars

\* process shutdown: the OnStop hook runs Stop, then Shutdown, then
\* client.Close(), while the handlers and both pools go on
ExitInit ==
    /\ PInit
    /\ cfg = [OpenAIKey |-> TRUE, OpenAIEnrichmentModel |-> TRUE,
              OpenAIEmbeddingModel |-> FALSE]
    /\ crashed = FALSE
    /\ HInit
    /\ urls = Subscribers
    /\ LInit
    /\ AInit
    /\ SInit
    /\ QInit
    /\ GInit
    /\ NInit
    /\ MInit

\* OnStop: dispatcher.Shutdown is called once enricher.Stop has returned
OnStopShutdown ==
    /\ StopFinished
    /\ ShutdownClose

ExitNext ==
    \/ PNext
    \/ OnStopShutdown
    \/ \E w \in HWorkers : HookClosed(w)
    \/ \E w \in HWorkers : HookCancelled(w)
    \/ ShutdownDone
    \/ ShutdownTimeout
    \/ ClientClose

ExitSpec == ExitInit /\ [][ExitNext]_vars

\* the list and search handlers over a table of embedded rows collected
\* before and after the instant the time filters name, for requests with
\* time filters and one query text
FilterInit ==
    /\ LInit
    /\ cfg = [OpenAIKey |-> TRUE, OpenAIEnrichmentModel |-> TRUE,
              OpenAIEmbeddingModel |-> TRUE]
    /\ records \in [SearchIds ->
          {NoRecord} \cup {[EnrichedRecord EXCEPT !.embedding = GeneratedVector,
                                                  !.collected_at = t] :
                             t \in {1, 3}}]
    /\ jobs = <<>>
    /\ claims = <<>>
    /\ hpc = [r \in SearchIds |-> "done"]
    /\ hin = [r \in SearchIds |-> NoInput]
    /\ enqCalls = [r \in SearchIds |-> <<>>]
    /\ events = [r \in SearchIds |-> <<>>]
    /\ wpc = [w \in Workers |-> "exited"]
    /\ wjob = [w \in Workers |-> NoJob]
    /\ wres = [w \in Workers |-> Nil]
    /\ stopChan = TRUE
    /\ doneChan = TRUE
    /\ stopPc = "returned"
    /\ crashed = FALSE
    /\ HInit
    /\ urls = <<>>
    /\ AInit
    /\ SInit
    /\ QInit
    /\ GInit
    /\ NInit
    /\ MInit

FilterNext ==
    \/ \E k \in ListRequests : ListHandler(k)
    \/ \E k \in Searches :
          SearchRequest(k, "hub", TimeFilters, {GeneratedVector})
    \/ \E k \in Searches :
          SearchRequest(k, "store", TimeFilters, {GeneratedVector})

FilterSpec == FilterInit /\ [][FilterNext]_vars

\* the API key check in front of the handlers, for every configured secret
AuthInit ==
    /\ PInit
    /\ cfg = [OpenAIKey |-> FALSE, OpenAIEnrichmentModel |-> TRUE,
              OpenAIEmbeddingModel |-> FALSE]
    /\ crashed = FALSE
    /\ HInit
    /\ urls = <<>>
    /\ LInit
    /\ apiKey \in Keys
    /\ SInit
    /\ QInit
    /\ GInit
    /\ NInit
    /\ MInit
    /\ apc = [q \in AuthRequests |-> "new"]
    /\ apath = [q \in AuthRequests |-> Nil]
    /\ akey = [q \in AuthRequests |-> <<>>]

AuthNext == \E q \in AuthRequests : AuthRequest(q)

AuthSpec == AuthInit /\ [][AuthNext]_vars

\* ------------------------------------------------------------ properties
\* the worker is past Dequeue and holds the job it returned
Holding(w) ==
    wpc[w] \in {"provider", "update", "fetch", "complete", "completeUnsent",
                "markFailed"}

JobsOf(r, t) ==
    {i \in 1..Len(jobs) : jobs[i].experience_id = r /\ jobs[i].job_type = t}

EnrichedCount(r) ==
    Cardinality({i \in 1..Len(events[r]) :
                    events[r][i].event = EventExperienceEnriched})

\* C1: no job is returned to two Dequeue callers: over its whole lifetime a
\* job is returned by at most one Dequeue call, and no two workers ever hold
\* the same job.
C1_DequeueExclusive ==
    /\ \A i \in 1..Len(claims) : claims[i] <= 1
    /\ \A w1, w2 \in Workers :
          (w1 # w2 /\ Holding(w1) /\ Holding(w2)) => wjob[w1].id # wjob[w2].id

\* two workers raced for one job: one holds it, the other has selected the
\* same row and is about to run its conditional update
C1_Witness ==
    \E w1, w2 \in Workers :
       /\ w1 # w2
       /\ wpc[w1] = "claim"
       /\ Holding(w2)
       /\ wjob[w1].id = wjob[w2].id
       /\ claims[wjob[w2].id] = 1

StatusSteps ==
    {<<"pending", "processing">>, <<"processing", "completed">>,
     <<"processing", "failed">>}

\* C2: a job's status changes only along pending -> processing -> completed
\* or pending -> processing -> failed; completed and failed are terminal; a
\* new job starts pending and no job leaves the table.
C2_StatusLifecycle ==
    [][/\ Len(jobs') >= Len(jobs)
       /\ \A i \in 1..Len(jobs) :
             \/ jobs'[i].status = jobs[i].status
             \/ <<jobs[i].status, jobs'[i].status>> \in StatusSteps
       /\ \A i \in (Len(jobs) + 1)..Len(jobs') : jobs'[i].status = "pending"]_vars

\* both terminal statuses have been reached, each through processing
C2_Witness ==
    \E i, k \in 1..Len(jobs) :
       /\ jobs[i].status = "completed"
       /\ jobs[k].status = "failed"
       /\ jobs[i].attempts = 1
       /\ jobs[k].attempts = 1

C7_NoClaimAfterStop ==
    [][stopPc = "returned" =>
          \A i \in 1..Len(jobs) :
             ~(jobs[i].status = "pending" /\ jobs'[i].status = "processing")]_vars

\* the url was offered to the queue and taken
Accepted(c, i) == hstate[c][i] \notin {"none", "dropped"}

\* C3: an event handed over through DispatchAsync and accepted into the
\* queue is POSTed at least once to every subscriber url; stated on the
\* jobs whose processing has ended: each of them was POSTed.
C3_AsyncEventPosted ==
    \A c \in Calls : \A i \in UrlIx :
       (ckind[c] = "async" /\ hstate[c][i] \in Finished) => posts[c][i] >= 1

\* C4: a Dispatch or DispatchAsync call made after or concurrently with
\* Shutdown returns normally: it never panics.
C4_DispatchAfterShutdownReturns ==
    \A c \in Calls : qClosed => cpc[c] # "panicked"

\* C8 as stated: when Shutdown returned nil every accepted job was delivered
\* or dropped after exhausting its attempts, and every worker has exited.
C8_ShutdownNilDeliveredOrExhausted ==
    shutPc = "nil" =>
       /\ \A w \in HWorkers : hwpc[w] = "exited"
       /\ \A c \in Calls : \A i \in UrlIx :
             Accepted(c, i) => hstate[c][i] \in {"delivered", "exhausted"}

\* C8, amended: when Shutdown returned nil the queue is empty, every accepted
\* job has finished processing (delivered, dropped after exhausting its
\* attempts, or dropped because its context was cancelled) and every worker
\* has exited.
C8_ShutdownNilAllFinished ==
    shutPc = "nil" =>
       /\ jobQueue = <<>>
       /\ \A w \in HWorkers : hwpc[w] = "exited" /\ hwjob[w] = NoHookJob
       /\ \A c \in Calls : \A i \in UrlIx :
             Accepted(c, i) => hstate[c][i] \in Finished

\* Shutdown returned nil after jobs had been accepted and worked off
C8_Witness ==
    /\ shutPc = "nil"
    /\ \E c \in Calls : \E i, k \in UrlIx :
          /\ hstate[c][i] = "delivered"
          /\ hstate[c][k] = "exhausted"

\* C9: once Shutdown has returned the timeout error no further POST is sent.
C9_NoPostAfterTimeout ==
    [][shutPc = "timeout" => posts' = posts]_vars

\* C10: Dispatch never waits: whatever the workers and subscribers do, a
\* call inside its loop can take its next step, the loop runs once per url,
\* and a step on the open queue appends exactly the job of that url when the
\* buffer has room and otherwise drops it, leaving the queue as it is.
C10_DispatchNeverBlocks ==
    /\ [](\A c \in Calls :
            (cpc[c] = "loop" /\ ~crashed) =>
               /\ ENABLED DispatchSend(c)
               /\ ci[c] \in 1..Len(urls))
    /\ [][\A c \in Calls :
            (cpc[c] = "loop" /\ ci'[c] # ci[c]) =>
               /\ ci'[c] = ci[c] + 1
               /\ cpc'[c] = IF ci[c] = Len(urls) THEN "return" ELSE "loop"
               /\ IF Len(jobQueue) < QueueSize
                  THEN /\ jobQueue' = Append(jobQueue, webhookJob(c, ci[c]))
                       /\ hstate'[c][ci[c]] = "queued"
                  ELSE /\ jobQueue' = jobQueue
                       /\ hstate'[c][ci[c]] = "dropped"]_vars

\* Dispatch has returned although the queue was full and no worker had
\* finished a job: one job was dropped
C10_Witness ==
    \E c \in Calls : \E i \in UrlIx :
       /\ cpc[c] = "done"
       /\ hstate[c][i] = "dropped"
       /\ Len(jobQueue) = QueueSize
       /\ \A w \in HWorkers : hwpc[w] = "select"

ProviderValues == Sentiments \cup {"vector"}

\* C12: when the provider call or the record update of a claimed job fails,
\* the worker goes to MarkFailed with an error string, no job is added, the
\* MarkFailed call writes status failed and that string on the job, the
\* worker is back polling afterwards, and no such failure ends the process.
C12_FailureMarksFailedAndContinues ==
    [][/\ crashed' = crashed
       /\ \A w \in Workers :
             /\ (wpc[w] \in {"provider", "update"} /\ wpc'[w] # wpc[w]) =>
                   \/ wpc'[w] \in {"update", "fetch", "complete"}
                   \/ /\ wpc'[w] = "markFailed"
                      /\ wres'[w] \notin ProviderValues \cup {Nil}
                      /\ jobs' = jobs
             /\ (wpc[w] = "markFailed" /\ wpc'[w] # wpc[w]) =>
                   /\ wpc'[w] = "select"
                   /\ Len(jobs') = Len(jobs)
                   /\ jobs' # jobs =>
                         /\ jobs'[wjob[w].id].status = "failed"
                         /\ jobs'[wjob[w].id].error = wres[w]]_vars

\* C18: every Enqueue call made at ingest, and every job in the table, is
\* of a kind whose derivation is enabled: enrichment jobs only with the key
\* and the chat model set, embedding jobs only with the key and the
\* embedding model set.
C18_EnqueueOnlyEnabledKind ==
    LET Enabled(t) == IF t = JobTypeEnrichment THEN IsEnrichmentEnabled
                                               ELSE IsEmbeddingEnabled
    IN /\ \A i \in 1..Len(jobs) : Enabled(jobs[i].job_type)
       /\ \A r \in Requests : \A i \in 1..Len(enqCalls[r]) :
             Enabled(enqCalls[r][i].job_type)

\* the enriched events dispatched for record r
EnrichedEvents(r) ==
    {i \in 1..Len(events[r]) : events[r][i].event = EventExperienceEnriched}

C14_ClaimsOldestPending ==
    [][\A i \in 1..Len(jobs) :
          (jobs[i].status = "pending" /\ jobs'[i].status = "processing") =>
             \A k \in 1..Len(jobs) :
                jobs[k].status = "pending"
                   => jobs[i].created_at <= jobs[k].created_at]_vars

\* C15: a job's attempts counter starts at 0, goes up by exactly one in the
\* step that claims the job (pending to processing) and is left unchanged
\* by every other step, MarkComplete and MarkFailed included.
C15_AttemptsCountClaims ==
    [][/\ \A i \in 1..Len(jobs) :
             jobs'[i].attempts =
                IF jobs[i].status = "pending" /\ jobs'[i].status = "processing"
                THEN jobs[i].attempts + 1
                ELSE jobs[i].attempts
       /\ \A i \in (Len(jobs) + 1)..Len(jobs') : jobs'[i].attempts = 0]_vars

\* one job was claimed and marked failed, another is still unclaimed
C15_Witness ==
    \E i, k \in 1..Len(jobs) :
       /\ jobs[i].status = "failed" /\ jobs[i].attempts = 1
       /\ jobs[i].error # Nil
       /\ jobs[k].status = "pending" /\ jobs[k].attempts = 0

\* C16: a job has a processed_at exactly when its status is completed or
\* failed.
C16_ProcessedAtIffTerminal ==
    \A i \in 1..Len(jobs) :
       (jobs[i].processed_at # NoTime)
          <=> (jobs[i].status \in {"completed", "failed"})

\* a completed, a failed and a processing job side by side
C16_Witness ==
    \E i, k, m \in 1..Len(jobs) :
       /\ jobs[i].status = "completed" /\ jobs[i].processed_at # NoTime
       /\ jobs[k].status = "failed" /\ jobs[k].processed_at # NoTime
       /\ jobs[m].status = "processing" /\ jobs[m].processed_at = NoTime

\* C17: every enriched event carries the sentiment, sentiment_score, emotion
\* and topics that the record holds in the store, which are a provider
\* answer; and in the step that dispatches the event they are the values
\* the dispatching worker's job has just written.
C17_EnrichedCarriesPatch ==
    /\ [](\A r \in Requests : \A k \in EnrichedEvents(r) :
            /\ Derived(events[r][k].data) = Derived(records[r])
            /\ \E s \in Sentiments : Derived(events[r][k].data) = Enrichment(s))
    /\ [][\A r \in Requests :
            events'[r] # events[r] /\ Len(events'[r]) \in EnrichedEvents(r)'
               => \E w \in Workers :
                     /\ wpc[w] = "fetch"
                     /\ wjob[w].experience_id = r
                     /\ Derived(events'[r][Len(events'[r])].data)
                           = Enrichment(wres[w])]_vars

\* an enriched event with the provider's positive answer was dispatched
C17_Witness ==
    \E r \in Requests : \E k \in EnrichedEvents(r) :
       /\ events[r][k].data.sentiment = "positive"
       /\ events[r][k].data.sentiment_score = "0.9"
       /\ events[r][k].data.emotion = "joy"
       /\ events[r][k].data.topics = <<"support">>
       /\ records[r].sentiment = "positive"


\* the request was answered with 429 Too Many Requests
Rejected(q) == lpc[q] \in {"429 global", "429 ip"}

\* C19: a request the rate limiter rejects never reaches the handler: the
\* step that answers it with 429 saves no record and enqueues no job, and a
\* rejected request has no record and no job, whichever bucket rejected it.
C19_RejectedNeverHandled ==
    /\ [](\A q \in LRequests :
            Rejected(q) =>
                /\ records[q] = NoRecord
                /\ hin[q] = NoInput
                /\ \A i \in 1..Len(jobs) : jobs[i].experience_id # q)
    /\ [][\A q \in LRequests :
            (lpc[q] = "new" /\ Rejected(q)') =>
                (records' = records /\ jobs' = jobs /\ hin' = hin)]_vars

\* one request was rejected by each bucket and another one was handled
C19_Witness ==
    /\ \E q \in LRequests : lpc[q] = "429 global"
    /\ \E q \in LRequests : lpc[q] = "429 ip"
    /\ \E q \in LRequests :
          /\ lpc[q] = "served"
          /\ records[q] # NoRecord
          /\ \E i \in 1..Len(jobs) : jobs[i].experience_id = q

\* the five requests of the scenario
Five == {q \in LRequests : q <= 5}

\* one client has sent the five requests, the last of them less than
\* `span` ticks after the first, and the global bucket let all of them pass
FiveFromOneClient(span) ==
    /\ \A q \in Five : lpc[q] \in {"served", "429 ip"}
    /\ \A q \in Five : lip[q] = lip[1]
    /\ lat[5] - lat[1] < span

\* the first two of the five were admitted, the other three answered 429
TwoAdmittedThreeRejected ==
    \A q \in Five : lpc[q] = (IF q <= perIPBurst THEN "served" ELSE "429 ip")

\* C20 as stated: with a per-IP rate of 2 and a burst of 2, of five requests
\* one client sends within less than one second the first two are admitted
\* and the remaining three are answered 429.
C20_FiveWithinASecond ==
    FiveFromOneClient(TicksPerSecond) => TwoAdmittedThreeRejected

\* C20: with a per-IP rate of 2 and a burst of 2, of five requests one
\* client sends within less than the time the bucket takes to refill one
\* token (1/rate second) the first two are admitted and the remaining three
\* are answered 429.
C20_FiveWithinOneRefill ==
    \A span \in 1..MaxTicks :
        (span * perIPRate <= TicksPerSecond /\ FiveFromOneClient(span))
            => TwoAdmittedThreeRejected

\* the five requests came from one client, not all at the same instant but
\* within one refill interval; two were admitted and three rejected
C20_Witness ==
    /\ FiveFromOneClient(2)
    /\ 2 * perIPRate <= TicksPerSecond
    /\ lat[5] > lat[1]
    /\ TwoAdmittedThreeRejected

\* C21: with a non-empty secret configured, a request to a path other than
\* /health, /docs and the OpenAPI document reaches its handler only if its
\* X-API-Key header equals the secret, byte for byte and in length; with an
\* empty secret every request reaches its handler.
C21_HandlerOnlyWithKey ==
    \A q \in AuthRequests :
        /\ (apiKey # <<>> /\ apc[q] = "handler" /\ apath[q] \notin PublicPaths)
               => akey[q] = apiKey
        /\ (apiKey = <<>> /\ apc[q] # "new") => apc[q] = "handler"

\* with a secret configured, one request to a protected path was let
\* through and another one was answered 401
C21_Witness ==
    /\ apiKey # <<>>
    /\ \E q \in AuthRequests :
          apc[q] = "handler" /\ apath[q] = "/v1/experiences"
    /\ \E q \in AuthRequests :
          apc[q] = "401" /\ Pad(akey[q], Len(apiKey)) = apiKey

\* the DispatchAsync calls of kind `kind` made for record r, by position
EventsAt(r, kind) == {i \in 1..Len(events[r]) : events[r][i].event = kind}

\* C24: no enriched event of a record is handed to the dispatcher before the
\* created event of that record.
C24_CreatedBeforeEnriched ==
    \A r \in Requests :
        \A i \in EventsAt(r, EventExperienceEnriched) :
            \E j \in EventsAt(r, EventExperienceCreated) : j < i

\* the provider errors that pass with time: network errors, rate limits
TransientErrors == {"openai api error", "openai embeddings api error"}

\* C25: a job whose provider call failed with a transient error is retried:
\* the step that records the failure leaves the job where Dequeue, which
\* returns pending jobs only, hands it to a worker again.
C25_TransientFailureRetried ==
    [][\A i \in 1..Len(jobs) :
          (jobs[i].error = Nil /\ jobs'[i].error \in TransientErrors)
              => jobs'[i].status = "pending"]_vars

\* an Enqueue or EnqueueEmbedding call made for request r returned an error
EnqueueFailed(r) == \E i \in 1..Len(enqCalls[r]) : ~enqCalls[r][i].ok

\* C26: when enqueuing a derivation job fails the create still succeeds: the
\* step in which the enqueue fails leaves the stored record as it is and the
\* handler goes on; the request never ends in an error, and when the handler
\* returns (with the success response) the record is stored and its created
\* event has been dispatched.
C26_EnqueueFailureKeepsCreate ==
    /\ [](\A r \in Requests :
            EnqueueFailed(r) =>
                /\ hpc[r] # "failed"
                /\ records[r] # NoRecord
                /\ hpc[r] = "done" =>
                       Cardinality(EventsAt(r, EventExperienceCreated)) = 1)
    /\ [][\A r \in Requests :
            (~EnqueueFailed(r) /\ EnqueueFailed(r)') =>
                (records' = records /\ events' = events)]_vars

\* both enqueues of a create failed and the create returned its record
C26_Witness ==
    \E r \in Requests :
        /\ Len(enqCalls[r]) = 2
        /\ \A i \in 1..2 : ~enqCalls[r][i].ok
        /\ hpc[r] = "done"
        /\ records[r] # NoRecord
        /\ Len(jobs) = 0

\* the requests of handler `op` on record id whose store write succeeded
Wrote(op, id) == {c \in Ops : oop[c] = op /\ oid[c] = id /\ owrote[c]}

\* the requests of handler `op` on record id that were answered `status`
Answered(op, id, status) ==
    {c \in Ops : oop[c] = op /\ oid[c] = id /\ ores[c] = status}

\* C22: a created, updated or deleted event is dispatched only after the
\* corresponding store write has succeeded, and a create, patch or delete
\* that fails dispatches no event: a record has a created event only when
\* its create saved it, and never when the create failed; it has as many
\* updated (deleted) events as update (delete) requests were answered 200
\* (204), all of them requests whose write succeeded, and never more than
\* there were successful writes; a step that dispatches an updated or
\* deleted event is taken by a request whose write succeeded before.
C22_EventOnlyAfterWrite ==
    /\ [](\A id \in StoreIds :
            /\ Cardinality(EventsAt(id, EventExperienceCreated)) =
                  (IF hpc[id] = "done" THEN 1 ELSE 0)
            /\ hpc[id] = "failed" => events[id] = <<>>
            /\ Cardinality(EventsAt(id, EventExperienceUpdated)) =
                  Cardinality(Answered("update", id, 200))
            /\ Answered("update", id, 200) \subseteq Wrote("update", id)
            /\ Cardinality(EventsAt(id, EventExperienceDeleted)) =
                  Cardinality(Answered("delete", id, 204))
            /\ Answered("delete", id, 204) \subseteq Wrote("delete", id))
    /\ [][\A id \in StoreIds :
            /\ EventsAt(id, EventExperienceUpdated)' #
                  EventsAt(id, EventExperienceUpdated)
                  => \E c \in Wrote("update", id) : ores[c] = 0 /\ ores'[c] = 200
            /\ EventsAt(id, EventExperienceDeleted)' #
                  EventsAt(id, EventExperienceDeleted)
                  => \E c \in Wrote("delete", id) :
                        /\ ores[c] = 0 /\ ores'[c] = 204
                        /\ records[id] = NoRecord
            /\ EventsAt(id, EventExperienceCreated)' #
                  EventsAt(id, EventExperienceCreated)
                  => hpc[id] = "dispatch" /\ hin[id] # NoInput]_vars

\* a create, an update and a delete each failed without an event, and an
\* update and a delete each succeeded with theirs
C22_Witness ==
    /\ \E id \in StoreIds : hpc[id] = "failed" /\ events[id] = <<>>
    /\ \E c \in Ops :
          /\ oop[c] = "delete" /\ ores[c] = 204
          /\ EventsAt(oid[c], EventExperienceDeleted) # {}
    /\ \E c \in Ops :
          /\ oop[c] = "update" /\ ores[c] = 200
          /\ EventsAt(oid[c], EventExperienceUpdated) # {}

\* request c runs update.Save in this step
UpdateSaves(c) == opc[c] = "idle" /\ oop'[c] = "update"

\* C23: a patch changes only the supplied columns and updated_at of the
\* addressed record: in the step of update.Save every other column of that
\* record (id, created_at, field_type, the derived fields, the embedding),
\* every other record and the job queue stay as they are; when the write
\* succeeds the supplied columns hold the values of the body, and when it
\* fails no record changes.
C23_PatchTouchesSuppliedOnly ==
    [][\A c \in Ops :
          UpdateSaves(c) =>
              LET id == oid'[c]
                  body == obody'[c]
              IN /\ jobs' = jobs
                 /\ \A r \in StoreIds \ {id} : records'[r] = records[r]
                 /\ (records[id] = NoRecord) = (records'[id] = NoRecord)
                 /\ \A f \in DOMAIN records[id] \ (Supplied(body) \cup {"updated_at"}) :
                       records'[id][f] = records[id][f]
                 /\ owrote'[c] =>
                       \A f \in Supplied(body) : records'[id][f] = body[f]
                 /\ ~owrote'[c] => records' = records]_vars

\* the enriched record was patched in its language alone, after its
\* creation: its text, its derived fields and its jobs are as before
C23_Witness ==
    \E c \in Ops :
        /\ oop[c] = "update" /\ oid[c] = 1 /\ ores[c] = 200
        /\ obody[c] = [value_text |-> Nil, language |-> "de"]
        /\ records[1] = [EnrichedRecord EXCEPT !.language = "de",
                                               !.updated_at = 1]
        /\ records[1].sentiment = "negative"
        /\ Len(jobs) >= 2

\* a delete of record id has succeeded
Deleted(id) == Wrote("delete", id) # {}

\* request c begins in this step
Begins(c) == opc[c] = "idle" /\ opc'[c] # "idle"

\* C27: after a delete of a record has succeeded the record stays absent: a
\* get of that id never returns it and answers not-found whenever the store
\* answers, and every further delete of that id answers the same way,
\* dispatches no event and changes no record and no job; no other delete of
\* the id succeeds.
C27_DeleteIsFinal ==
    /\ [](\A id \in StoreIds :
            Deleted(id) =>
                /\ records[id] = NoRecord
                /\ Cardinality(Wrote("delete", id)) = 1)
    /\ [][\A c \in Ops :
            (Begins(c) /\ oop'[c] \in {"get", "delete"} /\ Deleted(oid'[c])) =>
                /\ opc'[c] = "done"
                /\ ores'[c] \in {404, 500}
                /\ records[oid'[c]] = NoRecord => ores'[c] # 200
                /\ oexp'[c] = NoRecord
                /\ ~owrote'[c]
                /\ records' = records /\ jobs' = jobs /\ events' = events]_vars

\* the first delete of the enriched record succeeded; a later get and a
\* second delete would both find nothing: here the second delete was
\* answered 404
C27_Witness ==
    \E c1, c2 \in Ops :
        /\ oop[c1] = "delete" /\ oid[c1] = 1 /\ ores[c1] = 204
        /\ oop[c2] = "delete" /\ oid[c2] = 1 /\ ores[c2] = 404
        /\ oexp[c2] = NoRecord
        /\ records[1] = NoRecord
        /\ Len(jobs) >= 2

\* C28: a similarity search never returns a record whose embedding is null,
\* never returns a record twice, and never returns more records than the
\* requested limit; it returns fewer only when fewer records have an
\* embedding.
C28_SearchEmbeddedWithinLimit ==
    \A k \in Searches :
        /\ Len(qres[k]) <= qlimit[k]
        /\ \A i \in 1..Len(qres[k]) :
              /\ records[qres[k][i].id] # NoRecord
              /\ records[qres[k][i].id].embedding # NoEmbedding
              /\ \A j \in 1..Len(qres[k]) : i # j => qres[k][i].id # qres[k][j].id
        /\ qpc[k] = 200 =>
              \/ Len(qres[k]) = qlimit[k]
              \/ Len(qres[k]) = Cardinality({id \in SearchIds :
                                      /\ records[id] # NoRecord
                                      /\ records[id].embedding # NoEmbedding})

\* the table holds a record without an embedding and more embedded records
\* than the limit; the search returned as many as the limit, all embedded
C28_Witness ==
    \E k \in Searches :
        /\ qpc[k] = 200
        /\ Len(qres[k]) = qlimit[k]
        /\ \E id \in SearchIds :
              records[id] # NoRecord /\ records[id].embedding = NoEmbedding
        /\ Cardinality({id \in SearchIds : records[id].embedding # NoEmbedding})
              > qlimit[k]

\* max(0, min(1, x)), in units of 1/Scale
Clamp01(x) ==
    LET m == IF x < Scale THEN x ELSE Scale IN IF m > 0 THEN m ELSE 0

\* C29: the similarity attached to each search result equals
\* max(0, min(1, 1 - d)), d being the cosine distance of that record's
\* embedding to the query vector, and so lies in [0, 1].
C29_SimilarityIsClampedDistance ==
    \A k \in Searches :
        \A i \in 1..Len(qres[k]) :
            LET d == cosineDist(qvec[k], records[qres[k][i].id].embedding)
            IN /\ qres[k][i].similarity_score = Clamp01(Scale - d)
               /\ qres[k][i].similarity_score \in 0..Scale

\* C30: whatever the provider returned, the enrichment EnrichText returns
\* after normalization has a sentiment_score within [-1, 1] and at most 5
\* topics
C30_NormalizedWithinBounds ==
    npc = "ok" =>
        /\ nresult.sentiment_score >= 0 - Scale
        /\ nresult.sentiment_score <= Scale
        /\ Len(nresult.topics) <= 5

\* an answer with a score above 1 and more than 5 topics was normalized
C30_Witness ==
    /\ npc = "ok"
    /\ ncontent.sentiment_score > Scale
    /\ Len(ncontent.topics) > 5
    /\ nresult.sentiment_score = Scale
    /\ nresult.topics = SubSeq(ncontent.topics, 1, 5)

\* C31: when Stop has returned every worker of the pool has left its loop:
\* none is still polling, processing a job, writing to the store or
\* dispatching an event.
C31_StopReturnsAfterWorkersExit ==
    stopPc = "returned" => \A w \in Workers : wpc[w] = "exited"

\* worker w ends a call on the store: Dequeue's update, the record update,
\* the record fetch, MarkComplete or MarkFailed
WorkerStoreCall(w) ==
    /\ wpc[w] \in {"claim", "update", "fetch", "complete", "completeUnsent",
                   "markFailed"}
    /\ wpc'[w] # wpc[w]

\* C32: during process shutdown no worker hands an enriched event to the
\* dispatcher once its queue is closed, and no worker calls the store once
\* it is closed.
C32_NoUseAfterClose ==
    [][/\ qClosed =>
            \A r \in Requests :
               EventsAt(r, EventExperienceEnriched)'
                  = EventsAt(r, EventExperienceEnriched)
       /\ dbClosed => \A w \in Workers : ~WorkerStoreCall(w)]_vars

\* C33: with running workers and calls that all return, every enqueued job
\* is eventually claimed and eventually completed or failed.
C33_EveryJobFinishes ==
    \A i \in 1..MaxJobs :
       [](i <= Len(jobs) =>
             <>(/\ i <= Len(jobs)
                /\ claims[i] > 0
                /\ jobs[i].status \in {"completed", "failed"}))

C35_StopCancelsProviderCalls ==
    \A w \in Workers : (stopChan /\ wpc[w] = "provider") => startCtx

\* the jobs whose status is processing
Processing == {i \in 1..Len(jobs) : jobs[i].status = "processing"}

\* C36: every job in processing is held by exactly one running worker, so
\* at most NumWorkers jobs are in processing at a time.
C36_ProcessingHeldByOneWorker ==
    /\ \A i \in Processing :
          Cardinality({w \in Workers : Holding(w) /\ wjob[w].id = i}) = 1
    /\ Cardinality(Processing) <= NumWorkers

\* C37: MarkComplete and MarkFailed change only a job in processing: called
\* for a pending, completed or failed job they leave its status, error and
\* processed_at as they were.
C37_MarkOnlyProcessing ==
    [][\A i \in 1..Len(jobs) :
          ((CallMarkComplete(i) \/ CallMarkFailed(i))
              /\ jobs[i].status # "processing")
          => /\ jobs'[i].status = jobs[i].status
             /\ jobs'[i].error = jobs[i].error
             /\ jobs'[i].processed_at = jobs[i].processed_at]_vars

\* C38: among pending jobs with the same created_at, Dequeue claims the one
\* with the lowest id: no job is claimed while a pending job with the same
\* created_at and a lower id waits.
C38_TiesClaimedByJobId ==
    [][\A i \in 1..Len(jobs) :
          (jobs[i].status = "pending" /\ jobs'[i].status = "processing")
          => \A k \in 1..Len(jobs) :
                (jobs[k].status = "pending"
                    /\ jobs[k].created_at = jobs[i].created_at)
                => i <= k]_vars

\* C39: a list or search request whose since or until is not a valid
\* timestamp is answered 400 (unless a provider or store failure is answered
\* first) and returns no results.
C39_MalformedTimeRejected ==
    /\ \A k \in ListRequests :
          (gpc[k] # 0 /\ (Malformed(gsince[k]) \/ Malformed(guntil[k])))
          => gpc[k] \in {400, 500} /\ gdata[k] = <<>>
    /\ \A k \in Searches :
          (qpc[k] # 0 /\ (Malformed(qsince[k]) \/ Malformed(quntil[k])))
          => qpc[k] \in {400, 500, 503} /\ qres[k] = <<>>

\* C40: normalization keeps a sentiment among positive, negative, neutral,
\* mixed and an emotion among joy, anger, frustration, sadness, confusion,
\* neutral as the provider gave it, and maps every other value to neutral.
C40_KeepsKnownValues ==
    npc = "ok" =>
       /\ nresult.sentiment =
             IF ncontent.sentiment
                   \in {"positive", "negative", "neutral", "mixed"}
             THEN ncontent.sentiment ELSE "neutral"
       /\ nresult.emotion =
             IF ncontent.emotion
                   \in {"joy", "anger", "frustration", "sadness", "confusion",
                        "neutral"}
             THEN ncontent.emotion ELSE "neutral"

====
